---- MODULE Spec2Model ----
(***************************************************************************)
(* Model of the UniQue portals: the document upload / ingestion handler,   *)
(* the document delete handler and the content generation handler of the   *)
(* faculty portal, the Send handler of the student portal, and the         *)
(* services they call (DocumentProcessor, RAGEngine, QuestionGenerator,    *)
(* Database, AnalyticsService), also called directly by callers that       *)
(* share them.                                                             *)
(***************************************************************************)
EXTENDS Integers, Sequences, FiniteSets, TLC

\* ------------------------------------------------------------------ bounds
MaxDocs == 2        \* document ids (uuid4 values) the uploads may draw
MaxChunks == 2      \* chunks the splitter yields for one PDF
MaxEntries == 3     \* entries one Chroma collection may hold
MaxContents == 1    \* rows of generated_content
MaxQuestions == 2   \* num_questions offered to a generation call
MaxRawLen == 3      \* lexemes of the raw model outputs tried in every combination
MaxFallback == 5    \* num_questions offered to a call that falls back
MaxStored == 12     \* chunks of one document in the engine's vectorstore
MaxExtra == 4       \* characters a context argument has beyond the prompt's limit
MaxSessions == 2    \* browser sessions whose handler runs interleave
MaxRows == 2        \* rows of generated_content and analytics_events written by direct calls
MaxChats == 2       \* chat interactions the Send handler logs

\* ------------------------------------------------------------ input domains
DocIds == 1..MaxDocs
Users == {"u1", "u2"}
Filenames == {"a.pdf", "b.pdf"}
ContentTypes == {"assignment", "mcq", "viva"}

None == <<>>
Some(x) == <<x>>

\* Bounded sequences over a set.
SeqUpTo(S, n) == UNION {[1..k -> S] : k \in 0..n}

\* What a PDF file turns into inside process_pdf: extraction raises, or it
\* yields text (blank or not) that the splitter cuts into nchunks chunks.
Pdfs ==
    {[readable |-> FALSE, blank |-> FALSE, nchunks |-> 0],
     [readable |-> TRUE, blank |-> TRUE, nchunks |-> 0]}
    \cup {[readable |-> TRUE, blank |-> FALSE, nchunks |-> n] : n \in 0..MaxChunks}

\* The chunk texts of the file uploaded for doc_id: every file has a text of
\* its own, so the k-th chunk of one file differs from every chunk of another.
chunk_texts(doc_id, pdf) ==
    [k \in 1..pdf.nchunks |-> [file |-> doc_id, part |-> k]]

VARIABLES
    documents,          \* documents table: doc id -> row
    files,              \* doc ids whose upload file was written
    collections,        \* Chroma collections named by doc id: id -> entries
    faculty_documents,  \* the Chroma collection "faculty_documents"
    analytics_events,   \* analytics_events table, in insertion order
    generated_content,  \* generated_content table, in insertion order
    nextDoc,            \* number of uuid4 document ids handed out
    h,                  \* per session: its handler run in progress, or idle
    call                \* the direct call of a service that returned last

vars == <<documents, files, collections, faculty_documents, analytics_events,
          generated_content, nextDoc, h, call>>

\* ------------------------------------------------------------ Database
\* Database.create_document: INSERT of a row; chunks_created and
\* error_message are NULL.
create_document(docs, doc_id, filename, uploaded_by, status) ==
    docs @@ (doc_id :> [filename |-> filename, uploaded_by |-> uploaded_by,
                        status |-> status, chunks_created |-> None,
                        error_message |-> None])

\* update_document_status as it would be if a column were written only when
\* its argument is given.
update_document_status_given_only(docs, doc_id, status, chunks_created, error_message) ==
    IF doc_id \in DOMAIN docs
    THEN [docs EXCEPT ![doc_id] =
            [@ EXCEPT !.status = status,
                      !.chunks_created =
                          IF chunks_created = None THEN @ ELSE chunks_created,
                      !.error_message =
                          IF error_message = None THEN @ ELSE error_message]]
    ELSE docs

\* Database.update_document_status: UPDATE ... WHERE id = ?; sets all three
\* columns; no row with that id, no change.
update_document_status(docs, doc_id, status, chunks_created, error_message) ==
    IF doc_id \in DOMAIN docs
    THEN [docs EXCEPT ![doc_id] =
            [@ EXCEPT !.status = status,
                      !.chunks_created = chunks_created,
                      !.error_message = error_message]]
    ELSE docs

\* Database.delete_document: DELETE FROM documents WHERE id = ?
delete_document(docs, doc_id) ==
    [d \in DOMAIN docs \ {doc_id} |-> docs[d]]

\* Database.get_documents_by_user: ids of the rows uploaded by the user.
get_documents_by_user(docs, user_id) ==
    {d \in DOMAIN docs : docs[d].uploaded_by = user_id}

\* Database.log_event: INSERT into analytics_events.
log_event(events, user_id, event_type, event_data) ==
    Append(events, [user_id |-> user_id, event_type |-> event_type,
                    event_data |-> event_data])

\* ------------------------------------------------------------ Chroma
\* Chroma.get(where={key: value}): the entries whose metadata holds the key
\* with that value, in collection order.
where_get(coll, key, value) ==
    LET match(e) == key \in DOMAIN e.metadata /\ e.metadata[key] = value
    IN SelectSeq(coll, match)

\* Chroma.from_texts: opens (get-or-create) the named collection and adds one
\* entry per text under a fresh uuid, after whatever the collection holds.
from_texts(coll, texts, metadatas) ==
    coll \o [i \in 1..Len(texts) |->
                [document |-> texts[i], metadata |-> metadatas[i]]]

\* ------------------------------------------------------------ DocumentProcessor
EmptyTextError == "No readable text found in PDF"
NoChunksError == "Failed to split document into chunks"
ExtractError == "PdfReadError"
IndexError == "embedding or index write failed"
PersistError == "persist failed"

IndexOutcomes == {"ok", "from_texts_raises", "persist_raises"}

\* The metadata process_pdf attaches to every chunk.
chunk_metadata(doc_id, filename, uploaded_by) ==
    [doc_id |-> doc_id, filename |-> filename, uploaded_by |-> uploaded_by]

\* DocumentProcessor.process_pdf on a file whose content is pdf, writing to
\* the collection named doc_id (coll is that collection before the call).
\* io says which of the two index calls raises, if any.
process_pdf(pdf, coll, doc_id, filename, uploaded_by, io) ==
    LET chunks == chunk_texts(doc_id, pdf)
        metadatas == [i \in 1..Len(chunks) |->
                        chunk_metadata(doc_id, filename, uploaded_by)]
        written == from_texts(coll, chunks, metadatas)
        raise(stage, msg, c) ==
            [raised |-> TRUE, stage |-> stage, error |-> msg, coll |-> c,
             chunks_created |-> 0]
    IN  IF ~pdf.readable THEN raise("extract", ExtractError, coll)
        ELSE IF pdf.blank THEN raise("empty", EmptyTextError, coll)
        ELSE IF chunks = <<>> THEN raise("chunk", NoChunksError, coll)
        ELSE IF io = "from_texts_raises" THEN raise("index", IndexError, coll)
        ELSE IF io = "persist_raises" THEN raise("index", PersistError, written)
        ELSE [raised |-> FALSE, stage |-> "none", error |-> "", coll |-> written,
              chunks_created |-> Len(chunks)]

\* ------------------------------------------------------------ RAGEngine
ContextCap == 20
Separator == "\n\n"

\* "\n\n".join(chunks): the texts with a separator between neighbours; the
\* empty string is the empty sequence.
RECURSIVE join(_)
join(chunks) ==
    IF chunks = <<>> THEN <<>>
    ELSE IF Len(chunks) = 1 THEN <<chunks[1]>>
    ELSE <<chunks[1], Separator>> \o join(Tail(chunks))

\* all_chunks[:k]
take(s, k) == SubSeq(s, 1, IF Len(s) < k THEN Len(s) ELSE k)

\* results['documents'] of self.vectorstore.get(where={"document_id": doc_id}):
\* the texts of the entries of the store whose metadata document_id is that
\* id, in index order.
query_documents(store, doc_id) ==
    LET results == where_get(store, "document_id", doc_id)
    IN [i \in 1..Len(results) |-> results[i].document]

\* The loop of get_documents_context over a store that no other call writes
\* while it runs: for each id, in order, the texts its query gives.
RECURSIVE all_chunks(_, _)
all_chunks(store, document_ids) ==
    IF document_ids = <<>> THEN <<>>
    ELSE query_documents(store, Head(document_ids))
         \o all_chunks(store, Tail(document_ids))

\* The context as it would be without the [:20] slice.
context_text_no_cap(chunks) == join(chunks)

\* context = "\n\n".join(all_chunks[:20]) (line 252)
context_text(chunks) == join(take(chunks, ContextCap))

\* The except branch as it would be if it returned the chunks collected
\* before the query that raised.
failed_context_keeps_collected(chunks) == join(take(chunks, ContextCap))

\* except Exception: ... return "" (lines 255-257), whatever chunks the
\* queries before the failing one collected.
failed_context(chunks) == <<>>

\* RAGEngine.get_documents_context as one step, over a store that no other
\* call writes while it runs; query_fails says that the query of the last id
\* raises.
get_documents_context(store, document_ids, query_fails) ==
    IF query_fails /\ document_ids # <<>>
    THEN failed_context(all_chunks(store, SubSeq(document_ids, 1,
                                                 Len(document_ids) - 1)))
    ELSE context_text(all_chunks(store, document_ids))

\* self.vectorstore.delete(ids=...): the store without the entries that were
\* found (an entry stands for its id); an entry that is gone by then is
\* skipped.
delete_ids(store, found) ==
    LET keep(e) == \A i \in 1..Len(found) : found[i] # e
    IN SelectSeq(store, keep)

\* The student modes and the k of the retriever each one builds.
StudentModes == {"qa", "notes", "practice"}

retriever_k(mode) ==
    CASE mode = "qa" -> 5
      [] mode = "notes" -> 7
      [] mode = "practice" -> 6

\* What a similarity search for k results over the store can return: k of
\* its entries, or all of them when it holds fewer, ranked by their
\* similarity to the query (which entries and in which order depends on the
\* query). A result is the sequence of the positions of the chosen entries,
\* best first.
Retrievals(store, k) ==
    LET n == IF Len(store) < k THEN Len(store) ELSE k
    IN {R \in [1..n -> 1..Len(store)] :
           \A i, j \in 1..n : i # j => R[i] # R[j]}

\* result["source_documents"]: the retrieved entries in rank order.
source_documents(store, R) == [i \in 1..Len(R) |-> store[R[i]]]

\* dict.get(key, default)
metadata_get(metadata, key, default) ==
    IF key \in DOMAIN metadata THEN metadata[key] ELSE default

\* source_names as it would be if a call that retrieved nothing named the
\* source Unknown.
source_names_or_unknown(docs) ==
    IF docs = <<>> THEN {"Unknown"}
    ELSE {metadata_get(docs[i].metadata, "source", "Unknown") :
             i \in 1..Len(docs)}

\* set([doc.metadata.get("source", "Unknown") for doc in source_documents])
source_names(docs) ==
    {metadata_get(docs[i].metadata, "source", "Unknown") : i \in 1..Len(docs)}

\* list(set(...)): the members of the set, each once, in some order.
list_of_set(S) ==
    {q \in [1..Cardinality(S) -> S] :
        \A i, j \in 1..Cardinality(S) : i # j => q[i] # q[j]}

\* ------------------------------------------------------------ QuestionGenerator
\* A raw model output is a sequence of lexemes, written with one space
\* between two lexemes except around a double quote, which is written with
\* no space on either side:
\*   [ ] { } , :   the JSON punctuation characters;
\*   "             a double quote (a string literal is a quote, any lexemes
\*                 but a quote, and a quote; brackets in it are characters
\*                 like any other for find and rfind);
\*   num           an integer literal of at most 4300 digits;
\*   0, 1, ... 10  the integer literals of these numbers (what json.dumps
\*                 writes for the numbers of the placeholders);
\*   big           an integer literal of more than 4300 digits;
\*   [[            a run of '[' so long that the decoder, entering one array
\*                 after the other, exceeds the interpreter's recursion
\*                 limit (some 990 of them under the default limit of 1000;
\*                 the number depends on the frames already on the stack);
\*   null, true, false, NaN, Infinity, -Infinity   the literal names the
\*                 decoder knows;
\*   question, type, options, marking_scheme, explanation, x   words (x is
\*                 any word that is none of the others and no literal name).
Quote == "\""
LiteralNames == {"null", "true", "false", "NaN", "Infinity", "-Infinity"}
Words == {"question", "type", "options", "marking_scheme", "explanation", "x"}
NumberLiterals == {ToString(n) : n \in 0..10}
Lexemes ==
    {"[", "]", "[[", "{", "}", ",", ":", Quote, "num", "big"}
        \cup NumberLiterals \cup LiteralNames \cup Words

\* The lexemes of the raw outputs that are tried in every combination.
ScanLexemes ==
    {"[", "]", "[[", "{", "}", ",", ":", Quote, "num", "big", "null", "true",
     "x"}

\* [{"question": num}]: one question object that can be shown.
QuestionArray ==
    <<"[", "{", Quote, "question", Quote, ":", "num", "}", "]">>

\* Longer raw outputs, tried one by one.
\*   {"question": num, "x": ["x"]}         one object, no enclosing array
\*   [{"question": num}] {"x": [num]}      an array, then an object
\*   [{"question": num, "type": num}]      type is not a string
\*   [{"question": num, "options": []}]    options is not an object
\*   [{"question": num, "options": {}}]
\*   [{"question": num, "type": "x"}]
\*   [{"x": num}]                          no question key
\*   x [x] x                               prose with a bracketed word
\*   [[]]  x [[]]  [num, {}]  [big x]  [x big]
\*   [false]  [true, true]  [NaN, Infinity, -Infinity]
\*   [{"question": null}]
\*   [{"question": num, "type": null}]
\*   [{"question": num, "explanation": "x"}]
\*   [{"question": num, "marking_scheme": "x"}]
LongTexts ==
    {QuestionArray,
     <<"{", Quote, "question", Quote, ":", "num", ",", Quote, "x", Quote,
       ":", "[", Quote, "x", Quote, "]", "}">>,
     QuestionArray \o <<"{", Quote, "x", Quote, ":", "[", "num", "]", "}">>,
     <<"[", "{", Quote, "question", Quote, ":", "num", ",", Quote, "type",
       Quote, ":", "num", "}", "]">>,
     <<"[", "{", Quote, "question", Quote, ":", "num", ",", Quote, "options",
       Quote, ":", "[", "]", "}", "]">>,
     <<"[", "{", Quote, "question", Quote, ":", "num", ",", Quote, "options",
       Quote, ":", "{", "}", "}", "]">>,
     <<"[", "{", Quote, "question", Quote, ":", "num", ",", Quote, "type",
       Quote, ":", Quote, "x", Quote, "}", "]">>,
     <<"[", "{", Quote, "x", Quote, ":", "num", "}", "]">>,
     <<"x", "[", "x", "]", "x">>,
     <<"[", "[", "]", "]">>,
     <<"x", "[", "[", "]", "]">>,
     <<"[", "num", ",", "{", "}", "]">>,
     <<"[", "big", "x", "]">>,
     <<"[", "x", "big", "]">>,
     <<"[", "false", "]">>,
     <<"[", "true", ",", "true", "]">>,
     <<"[", "NaN", ",", "Infinity", ",", "-Infinity", "]">>,
     <<"[", "{", Quote, "question", Quote, ":", "null", "}", "]">>,
     <<"[", "{", Quote, "question", Quote, ":", "num", ",", Quote, "type",
       Quote, ":", "null", "}", "]">>,
     <<"[", "{", Quote, "question", Quote, ":", "num", ",", Quote,
       "explanation", Quote, ":", Quote, "x", Quote, "}", "]">>,
     <<"[", "{", Quote, "question", Quote, ":", "num", ",", Quote,
       "marking_scheme", Quote, ":", Quote, "x", Quote, "}", "]">>}

RawTexts == SeqUpTo(ScanLexemes, MaxRawLen) \cup LongTexts

Min(S) == CHOOSE x \in S : \A y \in S : x <= y
Max(S) == CHOOSE x \in S : \A y \in S : x >= y

\* str.find('[') / str.rfind(']') with Python's 0-based positions, -1 when
\* absent; a position is the position of the lexeme that holds the character.
find(s, t) ==
    LET P == {i \in 1..Len(s) : s[i] = t \/ (t = "[" /\ s[i] = "[[")}
    IN IF P = {} THEN -1 ELSE Min(P) - 1

rfind(s, t) ==
    LET P == {i \in 1..Len(s) : s[i] = t \/ (t = "[" /\ s[i] = "[[")}
    IN IF P = {} THEN -1 ELSE Max(P) - 1

\* response[start:end] for 0 <= start
slice(s, start, end) == SubSeq(s, start + 1, end)

\* The Python values the decoder builds and the encoder writes: a str holds
\* the lexemes of its text; an int holds its literal (none when the lexeme
\* num left the digits open); a list holds its items; a dict holds its keys
\* in insertion order and the value of each key; None, True, False, nan,
\* inf and -inf are kept under their literal names.
Str(text) == [kind |-> "str", text |-> text]
Num(n) == [kind |-> "num", literal |-> ToString(n)]
Arr(items) == [kind |-> "arr", items |-> items]

\* The dict built by inserting the <<key, value>> pairs one after the other:
\* a key inserted again keeps its place and takes the later value.
Obj(pairs) ==
    LET first(j) == \A i \in 1..(j - 1) : pairs[i][1] # pairs[j][1]
        firsts == SelectSeq([j \in 1..Len(pairs) |-> j], first)
        last(k) == Max({j \in 1..Len(pairs) : pairs[j][1] = k})
    IN [kind |-> "obj",
        keys |-> [i \in 1..Len(firsts) |-> pairs[firsts[i]][1]],
        members |-> [k \in {pairs[j][1] : j \in 1..Len(pairs)} |->
                        pairs[last(k)][2]]]

\* What the decoder gives back: the value that ends before position pos, or
\* the exception it raises.
Decoded(pos, value) == [error |-> "", pos |-> pos, value |-> value]
DecodeError(error) == [error |-> error, pos |-> 0, value |-> <<>>]

\* A string literal that starts at the quote at position i: it ends at the
\* next quote; its value is the text between the two.
json_string(s, i) ==
    LET Q == {j \in (i + 1)..Len(s) : s[j] = Quote}
    IN IF Q = {} THEN DecodeError("JSONDecodeError")
       ELSE Decoded(Min(Q) + 1,
                    Str(SubSeq(s, i + 1, Min(Q) - 1)))

\* json.loads, left to right: the JSON value that starts at position i of
\* s. The first thing that is wrong decides the exception: a syntax error
\* raises JSONDecodeError, an integer literal of more than 4300 digits
\* ValueError, a run of '[' beyond the recursion limit RecursionError. A
\* literal name gives its Python value (None, True, False, nan, inf, -inf),
\* kept here under its name; any other word is a syntax error.
RECURSIVE json_value(_, _), json_array_rest(_, _, _, _),
          json_object_rest(_, _, _, _)
json_value(s, i) ==
    IF i > Len(s) THEN DecodeError("JSONDecodeError")
    ELSE IF s[i] = Quote THEN json_string(s, i)
    ELSE IF s[i] = "{" THEN json_object_rest(s, i + 1, <<>>, TRUE)
    ELSE IF s[i] = "[" THEN json_array_rest(s, i + 1, <<>>, TRUE)
    ELSE IF s[i] = "[[" THEN DecodeError("RecursionError")
    ELSE IF s[i] \in LiteralNames THEN Decoded(i + 1, [kind |-> s[i]])
    ELSE IF s[i] = "num" THEN Decoded(i + 1, [kind |-> "num"])
    ELSE IF s[i] \in NumberLiterals
         THEN Decoded(i + 1, [kind |-> "num", literal |-> s[i]])
    ELSE IF s[i] = "big" THEN DecodeError("ValueError")
    ELSE DecodeError("JSONDecodeError")

json_array_rest(s, i, items, first) ==
    IF i > Len(s) THEN DecodeError("JSONDecodeError")
    ELSE IF first /\ s[i] = "]"
         THEN Decoded(i + 1, Arr(items))
    ELSE LET v == json_value(s, i)
             j == v.pos
         IN IF v.error # "" THEN v
            ELSE IF j > Len(s) THEN DecodeError("JSONDecodeError")
            ELSE IF s[j] = "]"
                 THEN Decoded(j + 1, Arr(Append(items, v.value)))
            ELSE IF s[j] = ","
                 THEN json_array_rest(s, j + 1, Append(items, v.value),
                                      FALSE)
            ELSE DecodeError("JSONDecodeError")

\* members holds the <<key text, value>> pairs read so far; a repeated key
\* keeps the value given last.
json_object_rest(s, i, members, first) ==
    IF i > Len(s) THEN DecodeError("JSONDecodeError")
    ELSE IF first /\ s[i] = "}"
         THEN Decoded(i + 1, Obj(members))
    ELSE IF s[i] # Quote THEN DecodeError("JSONDecodeError")
    ELSE LET k == json_string(s, i)
             c == k.pos
         IN IF k.error # "" THEN k
            ELSE IF c > Len(s) \/ s[c] # ":" THEN DecodeError("JSONDecodeError")
            ELSE LET v == json_value(s, c + 1)
                     j == v.pos
                     put == Append(members, <<k.value.text, v.value>>)
                 IN IF v.error # "" THEN v
                    ELSE IF j > Len(s) THEN DecodeError("JSONDecodeError")
                    ELSE IF s[j] = "}"
                         THEN Decoded(j + 1, Obj(put))
                    ELSE IF s[j] = ","
                         THEN json_object_rest(s, j + 1, put, FALSE)
                    ELSE DecodeError("JSONDecodeError")

\* json.loads(s): the value when the whole text is one JSON value, else the
\* exception (text after the value is a JSONDecodeError).
json_loads(s) ==
    LET v == json_value(s, 1)
    IN IF v.error # "" THEN v
       ELSE IF v.pos # Len(s) + 1 THEN DecodeError("JSONDecodeError")
       ELSE v

\* What _parse_json_response gives back: a list, or the exception that
\* leaves it.
Parsed(value) == [error |-> "", value |-> value]
ParseRaises(error) == [error |-> error, value |-> <<>>]

\* _parse_json_response as it would be with find(']') in place of rfind(']').
_parse_json_response_first_close(response) ==
    LET start == find(response, "[")
        end == find(response, "]") + 1
    IN IF start # -1 /\ end > start
       THEN LET loaded == json_loads(slice(response, start, end))
            IN IF loaded.error = "" THEN Parsed(loaded.value.items)
               ELSE IF loaded.error = "JSONDecodeError" THEN Parsed(<<>>)
               ELSE ParseRaises(loaded.error)
       ELSE Parsed(<<>>)

\* QuestionGenerator._parse_json_response: except json.JSONDecodeError
\* returns []; any other exception of json.loads leaves the function.
_parse_json_response(response) ==
    LET start == find(response, "[")
        end == rfind(response, "]") + 1
    IN IF start # -1 /\ end > start
       THEN LET loaded == json_loads(slice(response, start, end))
            IN IF loaded.error = "" THEN Parsed(loaded.value.items)
               ELSE IF loaded.error = "JSONDecodeError" THEN Parsed(<<>>)
               ELSE ParseRaises(loaded.error)
       ELSE Parsed(<<>>)

\* QuestionGenerator._generate_fallback_assignment; position i is 1-based
\* here, so Python's i is i - 1.
_generate_fallback_assignment(num_questions) ==
    [i \in 1..num_questions |->
        [question_number |-> i,
         question |-> <<"Question ", i, ": Based on the provided content, explain [topic] with relevant examples.">>,
         type |-> IF (i - 1) % 2 = 0 THEN "theory" ELSE "analytical",
         marks |-> IF (i - 1) < num_questions \div 2 THEN 5 ELSE 10,
         marking_scheme |-> "Refer to content for detailed marking",
         sample_answer |-> "Answer should cover key concepts from the provided material"]]

\* _generate_fallback_mcqs as it would be with three options and the last
\* letter as the answer.
_generate_fallback_mcqs_three_options(num_questions) ==
    [i \in 1..num_questions |->
        [question_number |-> i,
         question |-> <<"Question ", i, " from content">>,
         options |-> [A |-> "Option A", B |-> "Option B", C |-> "Option C"],
         correct_answer |-> "D",
         explanation |-> "Refer to content for explanation"]]

\* QuestionGenerator._generate_fallback_mcqs
_generate_fallback_mcqs(num_questions) ==
    [i \in 1..num_questions |->
        [question_number |-> i,
         question |-> <<"Question ", i, " from content">>,
         options |-> [A |-> "Option A", B |-> "Option B",
                      C |-> "Option C", D |-> "Option D"],
         correct_answer |-> "A",
         explanation |-> "Refer to content for explanation"]]

\* _generate_fallback_viva as it would be with two key points.
_generate_fallback_viva_two_points(num_questions) ==
    [i \in 1..num_questions |->
        [question_number |-> i,
         question |-> "Explain the concept discussed in the provided content.",
         type |-> "conceptual",
         key_points |-> <<"Key point 1", "Key point 2">>,
         difficulty |-> "medium"]]

\* QuestionGenerator._generate_fallback_viva
_generate_fallback_viva(num_questions) ==
    [i \in 1..num_questions |->
        [question_number |-> i,
         question |-> "Explain the concept discussed in the provided content.",
         type |-> "conceptual",
         key_points |-> <<"Key point 1", "Key point 2", "Key point 3">>,
         difficulty |-> "medium"]]

generate_fallback(content_type, num_questions) ==
    CASE content_type = "assignment" -> _generate_fallback_assignment(num_questions)
      [] content_type = "mcq" -> _generate_fallback_mcqs(num_questions)
      [] content_type = "viva" -> _generate_fallback_viva(num_questions)

\* The tail of generate_assignment / generate_mcqs / generate_viva_questions
\* once chain.run has returned result: parse, and fall back when the parsed
\* list is falsy; an exception of the parse leaves the generator.
resolve_questions(content_type, result, num_questions) ==
    LET parsed == _parse_json_response(result)
    IN IF parsed.error # "" THEN parsed
       ELSE IF parsed.value = <<>>
       THEN Parsed(generate_fallback(content_type, num_questions))
       ELSE parsed

\* ------------------------------------------------------------ generated content
\* json.dumps(value): the text, as lexemes. A str is written between quotes,
\* an int by its literal, a list and a dict with their brackets, separators
\* and, for a dict, the keys in insertion order; None, True, False, nan, inf
\* and -inf by their literal names.
RECURSIVE json_dumps(_), json_dumps_items(_), json_dumps_members(_, _)
json_dumps(value) ==
    IF value.kind = "str" THEN <<Quote>> \o value.text \o <<Quote>>
    ELSE IF value.kind = "num"
         THEN IF "literal" \in DOMAIN value THEN <<value.literal>>
              ELSE <<"num">>
    ELSE IF value.kind = "arr"
         THEN <<"[">> \o json_dumps_items(value.items) \o <<"]">>
    ELSE IF value.kind = "obj"
         THEN <<"{">> \o json_dumps_members(value, value.keys) \o <<"}">>
    ELSE <<value.kind>>

json_dumps_items(items) ==
    IF items = <<>> THEN <<>>
    ELSE IF Len(items) = 1 THEN json_dumps(items[1])
    ELSE json_dumps(items[1]) \o <<",">> \o json_dumps_items(Tail(items))

json_dumps_members(obj, keys) ==
    IF keys = <<>> THEN <<>>
    ELSE LET one == <<Quote>> \o keys[1] \o <<Quote, ":">>
                    \o json_dumps(obj.members[keys[1]])
         IN IF Len(keys) = 1 THEN one
            ELSE one \o <<",">> \o json_dumps_members(obj, Tail(keys))

\* The f-string of a placeholder's question: the number between two texts.
fstring(parts) ==
    IF Len(parts) = 3 THEN <<parts[1], ToString(parts[2]), parts[3]>>
    ELSE parts

\* A question of the list given to the store, as the Python value it is: a
\* parsed element is that value already; a placeholder is the dict its
\* generator builds, keys in the order of the dict literal.
question_value(question) ==
    LET number == <<<<"question_number">>, Num(question.question_number)>>
        text(key) == <<<<key>>, Str(<<question[key]>>)>>
    IN IF "kind" \in DOMAIN question THEN question
       ELSE IF "marks" \in DOMAIN question
       THEN Obj(<<number,
                  <<<<"question">>, Str(fstring(question.question))>>,
                  text("type"),
                  <<<<"marks">>, Num(question.marks)>>,
                  text("marking_scheme"), text("sample_answer")>>)
       ELSE IF "options" \in DOMAIN question
       THEN LET given(letter) == letter \in DOMAIN question.options
                letters == SelectSeq(<<"A", "B", "C", "D">>, given)
                options == Obj([i \in 1..Len(letters) |->
                                  <<<<letters[i]>>,
                                    Str(<<question.options[letters[i]]>>)>>])
            IN Obj(<<number,
                     <<<<"question">>, Str(fstring(question.question))>>,
                     <<<<"options">>, options>>,
                     text("correct_answer"), text("explanation")>>)
       ELSE Obj(<<number, text("question"), text("type"),
                  <<<<"key_points">>,
                    Arr([i \in 1..Len(question.key_points) |->
                            Str(<<question.key_points[i]>>)])>>,
                  text("difficulty")>>)

\* The list of questions, and the list of document ids (uuid4 strings, the
\* id d written as its number), as Python values.
questions_value(content) ==
    Arr([i \in 1..Len(content) |-> question_value(content[i])])

document_ids_value(document_ids) ==
    Arr([i \in 1..Len(document_ids) |-> Str(<<ToString(document_ids[i])>>)])

\* CURRENT_TIMESTAMP at an insert, in whole seconds: the second of the
\* newest row or the one after it (seconds are numbered from the first
\* insert; the clock does not run backwards).
Seconds(table) ==
    IF table = <<>> THEN {1}
    ELSE {table[Len(table)].created_at, table[Len(table)].created_at + 1}

\* store_generated_content as it would be if the document ids were stored
\* as a sorted set, json.dumps(sorted(set(document_ids))).
store_generated_content_sorted_ids(table, content_id, content_type, faculty_id, document_ids, content, now) ==
    LET ids == {document_ids[i] : i \in 1..Len(document_ids)}
        sorted == [i \in 1..Cardinality(ids) |->
                     CHOOSE x \in ids : Cardinality({y \in ids : y <= x}) = i]
    IN Append(table, [content_id |-> content_id, content_type |-> content_type,
                      faculty_id |-> faculty_id,
                      document_ids |-> json_dumps(document_ids_value(sorted)),
                      content |-> json_dumps(questions_value(content)),
                      created_at |-> now])

\* Database.store_generated_content: INSERT into generated_content; the two
\* lists are stored as JSON text, and created_at takes the column default,
\* the second of the insert.
store_generated_content(table, content_id, content_type, faculty_id, document_ids, content, now) ==
    Append(table, [content_id |-> content_id, content_type |-> content_type,
                   faculty_id |-> faculty_id,
                   document_ids |-> json_dumps(document_ids_value(document_ids)),
                   content |-> json_dumps(questions_value(content)),
                   created_at |-> now])

\* Database.get_generated_content_by_faculty: SELECT ... WHERE faculty_id = ?
\* ORDER BY created_at DESC: the faculty's rows, those of a later second
\* first and those of one second in their order in the table (the scan order,
\* which SQLite's sort keeps), each with its two JSON columns parsed back.
get_generated_content_by_faculty(table, faculty_id) ==
    LET mine(row) == row.faculty_id = faculty_id
        rows == SelectSeq(table, mine)
        before(j, i) ==
            \/ rows[j].created_at > rows[i].created_at
            \/ rows[j].created_at = rows[i].created_at /\ j < i
        at(k) == CHOOSE i \in 1..Len(rows) :
                    Cardinality({j \in 1..Len(rows) : before(j, i)}) = k - 1
    IN [k \in 1..Len(rows) |->
          [rows[at(k)] EXCEPT
              !.document_ids = json_loads(@).value,
              !.content = json_loads(@).value]]

\* ------------------------------------------------------------ state machine
\* Browser sessions: each runs the page script in a thread of its own, and
\* all share the services and the database.
Sessions == 1..MaxSessions

IdleHandler == [kind |-> "none", pc |-> "idle"]
NoCall == [op |-> "none"]

Init ==
    /\ documents = <<>>
    /\ files = {}
    /\ collections = [d \in DocIds |-> <<>>]
    /\ faculty_documents = <<>>
    /\ analytics_events = <<>>
    /\ generated_content = <<>>
    /\ nextDoc = 0
    /\ h = [s \in Sessions |-> IdleHandler]
    /\ call = NoCall

\* The script of session s is waiting for a button.
Idle(s) == h[s].pc = "idle"

\* How a handler run ends: it completed, it ended in its except branch, or
\* an exception left the script.
Ended == {"done", "failed", "crashed"}

\* ---- "Upload & Process" button (Faculty_Portal.py 87-165)
\* doc_id = uuid4(); the upload directory is made and the file written.
UploadBegin(s, user, filename, write_ok) ==
    /\ Idle(s)
    /\ nextDoc < MaxDocs
    /\ LET doc_id == nextDoc + 1
           run == [kind |-> "upload", user |-> user, doc |-> doc_id,
                   filename |-> filename, chunks |-> 0]
       IN /\ nextDoc' = doc_id
          /\ IF write_ok
             THEN /\ files' = files \cup {doc_id}
                  /\ h' = [h EXCEPT ![s] =
                             run @@ [pc |-> "saved", error |-> "",
                                     stage |-> "none"]]
             ELSE /\ files' = files
                  /\ h' = [h EXCEPT ![s] =
                             run @@ [pc |-> "except", error |-> "OSError",
                                     stage |-> "write"]]
    /\ UNCHANGED <<documents, collections, faculty_documents, analytics_events,
                   generated_content, call>>

\* db.create_document(..., status="processing"): the row is inserted, or the
\* database raises.
UploadCreate(s, db_ok) ==
    /\ h[s].kind = "upload" /\ h[s].pc = "saved"
    /\ IF db_ok
       THEN /\ documents' = create_document(documents, h[s].doc, h[s].filename,
                                            h[s].user, "processing")
            /\ h' = [h EXCEPT ![s].pc = "created"]
       ELSE /\ documents' = documents
            /\ h' = [h EXCEPT ![s].pc = "except",
                              ![s].error = "OperationalError",
                              ![s].stage = "create"]
    /\ UNCHANGED <<files, collections, faculty_documents, analytics_events,
                   generated_content, nextDoc, call>>

\* result = asyncio.run(doc_processor.process_pdf(...))
UploadProcess(s, pdf, io) ==
    /\ h[s].kind = "upload" /\ h[s].pc = "created"
    /\ LET r == process_pdf(pdf, collections[h[s].doc], h[s].doc,
                            h[s].filename, h[s].user, io)
       IN /\ Len(r.coll) <= MaxEntries
          /\ collections' = [collections EXCEPT ![h[s].doc] = r.coll]
          /\ h' = IF r.raised
                  THEN [h EXCEPT ![s].pc = "except", ![s].error = r.error,
                                 ![s].stage = r.stage]
                  ELSE [h EXCEPT ![s].pc = "processed",
                                 ![s].chunks = r.chunks_created]
    /\ UNCHANGED <<documents, files, faculty_documents, analytics_events,
                   generated_content, nextDoc, call>>

\* UploadComplete as it would be without the chunks_created argument.
UploadComplete_no_chunks(s, db_ok) ==
    /\ h[s].kind = "upload" /\ h[s].pc = "processed"
    /\ IF db_ok
       THEN /\ documents' = update_document_status(documents, h[s].doc,
                                                   "completed", None, None)
            /\ h' = [h EXCEPT ![s].pc = "completed"]
       ELSE /\ documents' = documents
            /\ h' = [h EXCEPT ![s].pc = "except",
                              ![s].error = "OperationalError",
                              ![s].stage = "complete"]
    /\ UNCHANGED <<files, collections, faculty_documents, analytics_events,
                   generated_content, nextDoc, call>>

\* db.update_document_status(doc_id, "completed", chunks_created=...): the
\* row is updated, or the database raises.
UploadComplete(s, db_ok) ==
    /\ h[s].kind = "upload" /\ h[s].pc = "processed"
    /\ IF db_ok
       THEN /\ documents' = update_document_status(documents, h[s].doc,
                                                   "completed",
                                                   Some(h[s].chunks), None)
            /\ h' = [h EXCEPT ![s].pc = "completed"]
       ELSE /\ documents' = documents
            /\ h' = [h EXCEPT ![s].pc = "except",
                              ![s].error = "OperationalError",
                              ![s].stage = "complete"]
    /\ UNCHANGED <<files, collections, faculty_documents, analytics_events,
                   generated_content, nextDoc, call>>

\* analytics.log_document_processed(...): returns, or raises.
UploadLog(s, log_ok) ==
    /\ h[s].kind = "upload" /\ h[s].pc = "completed"
    /\ IF log_ok
       THEN /\ analytics_events' =
                 log_event(analytics_events, h[s].user, "document_processed",
                           [document_id |-> h[s].doc,
                            chunks_created |-> h[s].chunks])
            /\ h' = [h EXCEPT ![s].pc = "done"]
       ELSE /\ analytics_events' = analytics_events
            /\ h' = [h EXCEPT ![s].pc = "except",
                              ![s].error = "OperationalError",
                              ![s].stage = "analytics"]
    /\ UNCHANGED <<documents, files, collections, faculty_documents,
                   generated_content, nextDoc, call>>

\* except Exception as e: st.error(...); db.update_document_status(doc_id,
\* "failed", error_message=str(e)): the row is updated, or the database
\* raises and the exception leaves the script.
UploadExcept(s, db_ok) ==
    /\ h[s].kind = "upload" /\ h[s].pc = "except"
    /\ IF db_ok
       THEN /\ documents' = update_document_status(documents, h[s].doc,
                                                   "failed", None,
                                                   Some(h[s].error))
            /\ h' = [h EXCEPT ![s].pc = "failed"]
       ELSE /\ documents' = documents
            /\ h' = [h EXCEPT ![s].pc = "crashed"]
    /\ UNCHANGED <<files, collections, faculty_documents, analytics_events,
                   generated_content, nextDoc, call>>

\* ---- "Delete" button of a document card (Faculty_Portal.py 173-211)
\* The script run in which the button is pressed reads the user's rows
\* (line 173) and draws a card for each, in whatever status; the card of
\* doc_id is among them and its button reports the press.
DeleteBegin(s, user, doc_id) ==
    /\ Idle(s)
    /\ doc_id \in get_documents_by_user(documents, user)
    /\ h' = [h EXCEPT ![s] = [kind |-> "delete", pc |-> "listed",
                              user |-> user, doc |-> doc_id]]
    /\ UNCHANGED <<documents, files, collections, faculty_documents,
                   analytics_events, generated_content, nextDoc, call>>

\* db.delete_document(doc['id']) (line 209): the row, if it is still there,
\* is deleted, or the database raises and the exception leaves the script.
DeleteDocument(s, db_ok) ==
    /\ h[s].kind = "delete" /\ h[s].pc = "listed"
    /\ documents' = IF db_ok THEN delete_document(documents, h[s].doc)
                    ELSE documents
    /\ h' = [h EXCEPT ![s].pc = IF db_ok THEN "done" ELSE "crashed"]
    /\ UNCHANGED <<files, collections, faculty_documents, analytics_events,
                   generated_content, nextDoc, call>>

\* The script run of session s is over (st.rerun(), the end of the script,
\* or an exception that left it); the session waits for the next button.
ScriptEnd(s) ==
    /\ h[s].pc \in Ended
    /\ h' = [h EXCEPT ![s] = IdleHandler]
    /\ UNCHANGED <<documents, files, collections, faculty_documents,
                   analytics_events, generated_content, nextDoc, call>>

\* ---- "Generate Content" button (Faculty_Portal.py 218-332)
\* completed_docs as it would be if the documents of every user were offered.
completed_docs_of_anyone(user) ==
    {d \in DOMAIN documents : documents[d].status = "completed"}

\* completed_docs: the user's documents whose status is completed.
completed_docs(user) ==
    {d \in get_documents_by_user(documents, user) :
        documents[d].status = "completed"}

\* What the multiselect can hold: the chosen ids, each once, in some order.
Selections(S) ==
    {q \in SeqUpTo(S, Cardinality(S)) :
        q # <<>> /\ \A i, j \in 1..Len(q) : i # j => q[i] # q[j]}

\* Raw model outputs tried by the handler runs: an empty array, a question
\* object that can be shown, an empty object, null, and a number of more
\* than 4300 digits.
RawSamples ==
    {<<"[", "]">>, QuestionArray, <<"[", "{", "}", "]">>,
     <<"[", "null", "]">>, <<"[", "big", "]">>}

\* Generation runs that have begun and not ended.
generating == {s \in Sessions : h[s].kind = "generate" /\ h[s].pc \notin Ended}

\* The script run in which the button is pressed reads completed_docs
\* (line 219) and takes the selection, the content type and the number of
\* questions from its widgets.
GenBegin(s, user, selected_docs, content_type, num_questions) ==
    /\ Idle(s)
    /\ Len(generated_content) + Cardinality(generating) < MaxContents
    /\ selected_docs \in Selections(completed_docs(user))
    /\ h' = [h EXCEPT ![s] =
             [kind |-> "generate", pc |-> "selected", user |-> user,
              selected_docs |-> selected_docs, content_type |-> content_type,
              num_questions |-> num_questions, context |-> <<>>,
              returned |-> FALSE, questions |-> <<>>,
              stored |-> 0, error |-> "", stage |-> "none"]]
    /\ UNCHANGED <<documents, files, collections, faculty_documents,
                   analytics_events, generated_content, nextDoc, call>>

\* GenContext as it would be if an empty context were refused.
GenContext_requires_context(s, query_fails) ==
    /\ h[s].kind = "generate" /\ h[s].pc = "selected"
    /\ LET context == get_documents_context(faculty_documents,
                                            h[s].selected_docs, query_fails)
       IN h' = IF context = <<>>
               THEN [h EXCEPT ![s].pc = "except", ![s].error = "ValueError",
                              ![s].stage = "context"]
               ELSE [h EXCEPT ![s].pc = "context", ![s].context = context]
    /\ UNCHANGED <<documents, files, collections, faculty_documents,
                   analytics_events, generated_content, nextDoc, call>>

\* context = asyncio.run(rag_engine.get_documents_context(selected_docs))
\* (line 267), with the ids selected when the run read completed_docs.
GenContext(s, query_fails) ==
    /\ h[s].kind = "generate" /\ h[s].pc = "selected"
    /\ h' = [h EXCEPT ![s].pc = "context",
                      ![s].context =
                          get_documents_context(faculty_documents,
                                                h[s].selected_docs,
                                                query_fails)]
    /\ UNCHANGED <<documents, files, collections, faculty_documents,
                   analytics_events, generated_content, nextDoc, call>>

\* The handler record after the generator was given the text result by the
\* model: it returns the questions, or its parse raises.
after_generate(run, result) ==
    LET r == resolve_questions(run.content_type, result, run.num_questions)
    IN IF r.error = ""
       THEN [run EXCEPT !.pc = "generated", !.returned = TRUE,
                        !.questions = r.value]
       ELSE [run EXCEPT !.pc = "except", !.returned = TRUE,
                        !.error = r.error, !.stage = "parse"]

\* GenInvoke as it would be if the generator answered a failed model
\* invocation with its placeholders instead of raising.
GenInvoke_swallows(s, result, llm_ok) ==
    /\ h[s].kind = "generate" /\ h[s].pc = "context"
    /\ h' = IF llm_ok
            THEN [h EXCEPT ![s] = after_generate(h[s], result)]
            ELSE [h EXCEPT ![s].pc = "generated",
                           ![s].error = "HfHubHTTPError",
                           ![s].stage = "llm",
                           ![s].questions =
                               generate_fallback(h[s].content_type,
                                                 h[s].num_questions)]
    /\ UNCHANGED <<documents, files, collections, faculty_documents,
                   analytics_events, generated_content, nextDoc, call>>

\* questions = asyncio.run(question_gen.generate_...(context, ...)): the
\* model invocation returns the text result and the generator parses it, or
\* the invocation raises.
GenInvoke(s, result, llm_ok) ==
    /\ h[s].kind = "generate" /\ h[s].pc = "context"
    /\ h' = IF llm_ok
            THEN [h EXCEPT ![s] = after_generate(h[s], result)]
            ELSE [h EXCEPT ![s].pc = "except",
                           ![s].error = "HfHubHTTPError",
                           ![s].stage = "llm"]
    /\ UNCHANGED <<documents, files, collections, faculty_documents,
                   analytics_events, generated_content, nextDoc, call>>

\* content_id = str(uuid.uuid4()); db.store_generated_content(...): the row
\* is inserted under the next fresh id, or the database raises.
GenStore(s, db_ok) ==
    /\ h[s].kind = "generate" /\ h[s].pc = "generated"
    /\ IF db_ok
       THEN /\ \E now \in Seconds(generated_content) :
                  generated_content' =
                     store_generated_content(generated_content,
                                             Len(generated_content) + 1,
                                             h[s].content_type, h[s].user,
                                             h[s].selected_docs,
                                             h[s].questions, now)
            /\ h' = [h EXCEPT ![s].pc = "stored", ![s].stored = @ + 1]
       ELSE /\ generated_content' = generated_content
            /\ h' = [h EXCEPT ![s].pc = "except",
                              ![s].error = "OperationalError",
                              ![s].stage = "store"]
    /\ UNCHANGED <<documents, files, collections, faculty_documents,
                   analytics_events, nextDoc, call>>

\* analytics.log_content_generation(...): returns, or raises.
GenLog(s, log_ok) ==
    /\ h[s].kind = "generate" /\ h[s].pc = "stored"
    /\ IF log_ok
       THEN /\ analytics_events' =
                 log_event(analytics_events, h[s].user, "content_generated",
                           [content_type |-> h[s].content_type,
                            num_items |-> Len(h[s].questions)])
            /\ h' = [h EXCEPT ![s].pc = "logged"]
       ELSE /\ analytics_events' = analytics_events
            /\ h' = [h EXCEPT ![s].pc = "except",
                              ![s].error = "OperationalError",
                              ![s].stage = "analytics"]
    /\ UNCHANGED <<documents, files, collections, faculty_documents,
                   generated_content, nextDoc, call>>

\* dict.get / dict[key] / key in dict on a parsed object.
has_key(question, key) == <<key>> \in DOMAIN question.members
member(question, key) == question.members[<<key>>]

\* render_question_card(question, index): the exception it raises, "" when it
\* renders. question.get(...) needs a dict; .title() needs the type, when
\* there is one, to be a string; question['question'] needs the key;
\* question['options'].items() needs the options, when there are any, to be
\* a dict; a marking_scheme or an explanation is shown in an expander
\* inside the card's expander, which the installed Streamlit allows
\* (nested_ok) or refuses with StreamlitAPIException. A placeholder has
\* type, question and options as needed; an assignment placeholder has a
\* marking_scheme and an mcq placeholder an explanation.
render_question_card(question, nested_ok) ==
    IF "kind" \notin DOMAIN question
    THEN IF ~nested_ok
            /\ {"marking_scheme", "explanation"} \cap DOMAIN question # {}
         THEN "StreamlitAPIException"
         ELSE ""
    ELSE IF question.kind # "obj" THEN "AttributeError"
    ELSE IF has_key(question, "type") /\ member(question, "type").kind # "str"
         THEN "AttributeError"
    ELSE IF ~has_key(question, "question") THEN "KeyError"
    ELSE IF has_key(question, "options")
            /\ member(question, "options").kind # "obj"
         THEN "AttributeError"
    ELSE IF ~nested_ok
            /\ (has_key(question, "marking_scheme")
                \/ has_key(question, "explanation"))
         THEN "StreamlitAPIException"
    ELSE ""

\* for i, question in enumerate(questions): render_question_card(question, i)
\* stops at the first card that raises.
GenRender(s, nested_ok) ==
    /\ h[s].kind = "generate" /\ h[s].pc = "logged"
    /\ LET questions == h[s].questions
           bad == {i \in 1..Len(questions) :
                      render_question_card(questions[i], nested_ok) # ""}
       IN h' = IF bad = {}
               THEN [h EXCEPT ![s].pc = "done"]
               ELSE [h EXCEPT ![s].pc = "except",
                              ![s].error =
                                  render_question_card(questions[Min(bad)],
                                                       nested_ok),
                              ![s].stage = "render"]
    /\ UNCHANGED <<documents, files, collections, faculty_documents,
                   analytics_events, generated_content, nextDoc, call>>

\* except Exception as e: st.error(...)
GenExcept(s) ==
    /\ h[s].kind = "generate" /\ h[s].pc = "except"
    /\ h' = [h EXCEPT ![s].pc = "failed"]
    /\ UNCHANGED <<documents, files, collections, faculty_documents,
                   analytics_events, generated_content, nextDoc, call>>

\* st.success, or a widget call of the display of the questions (lines
\* 312-324), ends the script when the session asked for a rerun or a stop
\* meanwhile: the run is over with its row stored and its event logged, and
\* neither the except branch nor the rest of the display is reached.
GenStop(s) ==
    /\ h[s].kind = "generate" /\ h[s].pc = "logged"
    /\ h' = [h EXCEPT ![s].pc = "crashed", ![s].stage = "stop"]
    /\ UNCHANGED <<documents, files, collections, faculty_documents,
                   analytics_events, generated_content, nextDoc, call>>

\* A widget call of the run (st.info, st.progress, st.success, st.error; lines
\* 115-119, 128-134, 143-144, 153, 164) ends the script when the session
\* asked for a rerun or a stop meanwhile (the user pressed a widget or left):
\* the call raises an exception that is no Exception, so the except branch
\* does not run and the statements after the call are not reached.
UploadStop(s) ==
    /\ h[s].kind = "upload"
    /\ h[s].pc \in {"created", "processed", "completed", "except"}
    /\ h' = [h EXCEPT ![s].pc = "crashed"]
    /\ UNCHANGED <<documents, files, collections, faculty_documents,
                   analytics_events, generated_content, nextDoc, call>>

\* A step of the upload handler run of session s that has begun: the script
\* runs each statement after the one before, and every call returns or
\* raises, or a widget call ends the script.
UploadStep(s) ==
    \/ \E db_ok \in BOOLEAN : UploadCreate(s, db_ok)
    \/ \E pdf \in Pdfs, io \in IndexOutcomes : UploadProcess(s, pdf, io)
    \/ \E db_ok \in BOOLEAN : UploadComplete(s, db_ok)
    \/ \E log_ok \in BOOLEAN : UploadLog(s, log_ok)
    \/ \E db_ok \in BOOLEAN : UploadExcept(s, db_ok)
    \/ UploadStop(s)

\* The upload and delete handlers of all sessions.
NextUpload ==
    \E s \in Sessions :
       \/ \E user \in Users, filename \in Filenames, write_ok \in BOOLEAN :
             UploadBegin(s, user, filename, write_ok)
       \/ UploadStep(s)
       \/ \E user \in Users, doc_id \in DocIds : DeleteBegin(s, user, doc_id)
       \/ \E db_ok \in BOOLEAN : DeleteDocument(s, db_ok)
       \/ ScriptEnd(s)

\* The document tabs alone: uploads and deletions, no content generation.
SpecUpload == Init /\ [][NextUpload]_vars

\* A run that has begun does not hang: it takes its next step, or it is
\* stopped.
SpecUploadLive == SpecUpload /\ \A s \in Sessions : WF_vars(UploadStep(s))

\* The generation handler of all sessions; the requests ask for MaxQuestions
\* questions (SpecGenerator has every count).
NextGenerate ==
    \E s \in Sessions :
       \/ \E user \in Users, selected_docs \in SeqUpTo(DocIds, MaxDocs),
             content_type \in ContentTypes, num_questions \in {MaxQuestions} :
             GenBegin(s, user, selected_docs, content_type, num_questions)
       \/ \E query_fails \in BOOLEAN : GenContext(s, query_fails)
       \/ \E result \in RawSamples, llm_ok \in BOOLEAN :
             GenInvoke(s, result, llm_ok)
       \/ \E db_ok \in BOOLEAN : GenStore(s, db_ok)
       \/ \E log_ok \in BOOLEAN : GenLog(s, log_ok)
       \/ \E nested_ok \in BOOLEAN : GenRender(s, nested_ok)
       \/ GenExcept(s)
       \/ GenStop(s)

\* The uploads and deletions that go on next to the generation requests:
\* files of one name that cannot be read or give one chunk, and database,
\* index and analytics calls that return (SpecUpload has the other files and
\* the calls that raise, and the runs that a widget call ends).
PortalPdfs ==
    {pdf \in Pdfs : ~pdf.readable \/ (~pdf.blank /\ pdf.nchunks = 1)}

NextDocuments ==
    \E s \in Sessions :
       \/ \E user \in Users : UploadBegin(s, user, "a.pdf", TRUE)
       \/ UploadCreate(s, TRUE)
       \/ \E pdf \in PortalPdfs : UploadProcess(s, pdf, "ok")
       \/ UploadComplete(s, TRUE)
       \/ UploadLog(s, TRUE)
       \/ UploadExcept(s, TRUE)
       \/ \E user \in Users, doc_id \in DocIds : DeleteBegin(s, user, doc_id)
       \/ DeleteDocument(s, TRUE)
       \/ ScriptEnd(s)

\* The portal as a whole: the three handlers in every session.
Next == NextDocuments \/ NextGenerate

Spec == Init /\ [][Next]_vars

\* ---- direct calls of the services, by callers that share them
\* The callers are the script threads of the sessions: st.cache_resource
\* hands every session the same DocumentProcessor, RAGEngine and Database,
\* and nothing in the services holds a lock. A call that spans more than one
\* index operation is in progress in h between its operations, so the calls
\* of other callers come in between; `call` is the record of the call that
\* returned last.
\* What a call record keeps of the call before it: a successful process_pdf
\* and its document id, or nothing.
Summary(c) ==
    IF c.op = "process_pdf" /\ ~c.raised
    THEN [op |-> "process_pdf", doc |-> c.doc]
    ELSE [op |-> "other", doc |-> 0]

\* Chunks that the ingestions in progress for doc_id have split and not yet
\* written.
RECURSIVE pending_chunks(_, _)
pending_chunks(doc_id, s) ==
    IF s = 0 THEN 0
    ELSE (IF h[s].kind = "process_pdf" /\ h[s].pc = "split"
             /\ h[s].doc = doc_id
          THEN h[s].pdf.nchunks ELSE 0)
         + pending_chunks(doc_id, s - 1)

\* DocumentProcessor.process_pdf called for a document id (lines 20-33): the
\* text is extracted and split, which raises to the caller or leaves the
\* chunks to be indexed. A repeated call for an id is a retry for the same
\* document (same filename, same owner).
ProcessPdfBegin(s, doc_id, filename, uploaded_by, pdf) ==
    /\ Idle(s)
    /\ call.op # "generate"
    /\ \A i \in 1..Len(collections[doc_id]) :
          collections[doc_id][i].metadata =
             chunk_metadata(doc_id, filename, uploaded_by)
    /\ \A t \in Sessions :
          (h[t].kind = "process_pdf" /\ h[t].doc = doc_id)
             => (h[t].filename = filename /\ h[t].uploaded_by = uploaded_by)
    /\ Len(collections[doc_id]) + pending_chunks(doc_id, MaxSessions)
          + pdf.nchunks <= MaxEntries
    /\ LET r == process_pdf(pdf, collections[doc_id], doc_id, filename,
                            uploaded_by, "ok")
       IN IF r.raised
          THEN /\ call' = [op |-> "process_pdf", doc |-> doc_id,
                           filename |-> filename, uploaded_by |-> uploaded_by,
                           raised |-> TRUE, chunks_created |-> 0,
                           prev |-> Summary(call)]
               /\ h' = h
          ELSE /\ h' = [h EXCEPT ![s] =
                          [kind |-> "process_pdf", pc |-> "split",
                           doc |-> doc_id, filename |-> filename,
                           uploaded_by |-> uploaded_by, pdf |-> pdf]]
               /\ call' = call
    /\ UNCHANGED <<documents, files, collections, faculty_documents,
                   analytics_events, generated_content, nextDoc>>

\* What process_pdf hands its caller: the record of the call that returned.
process_pdf_returned(run, raised, prev) ==
    [op |-> "process_pdf", doc |-> run.doc, filename |-> run.filename,
     uploaded_by |-> run.uploaded_by, raised |-> raised,
     chunks_created |-> IF raised THEN 0 ELSE Len(chunk_texts(run.doc, run.pdf)),
     prev |-> prev]

\* The entries Chroma.from_texts adds for the chunks of an ingestion.
chunk_entries(run) ==
    LET chunks == chunk_texts(run.doc, run.pdf)
    IN from_texts(<<>>, chunks,
                  [i \in 1..Len(chunks) |->
                      chunk_metadata(run.doc, run.filename, run.uploaded_by)])

\* ProcessPdfWrite as it would be if every ingestion wrote one shared
\* collection instead of the collection named by its document id.
ProcessPdfWrite_shared_collection(s, write_ok) ==
    /\ h[s].kind = "process_pdf" /\ h[s].pc = "split"
    /\ IF write_ok
       THEN /\ \A d \in DocIds :
                  Len(collections[d] \o chunk_entries(h[s])) <= MaxEntries
            /\ collections' =
                  [d \in DocIds |-> collections[d] \o chunk_entries(h[s])]
            /\ h' = [h EXCEPT ![s].pc = "written"]
            /\ call' = call
       ELSE /\ collections' = collections
            /\ call' = process_pdf_returned(h[s], TRUE, Summary(call))
            /\ h' = [h EXCEPT ![s] = IdleHandler]
    /\ UNCHANGED <<documents, files, faculty_documents, analytics_events,
                   generated_content, nextDoc>>

\* vectorstore = Chroma.from_texts(..., collection_name=doc_id) (lines
\* 34-42): the chunks are added to the collection named by the document id,
\* as it is by then, and the call goes on to persist; or from_texts raises
\* to the caller with nothing written.
ProcessPdfWrite(s, write_ok) ==
    /\ h[s].kind = "process_pdf" /\ h[s].pc = "split"
    /\ IF write_ok
       THEN /\ collections' =
                  [collections EXCEPT ![h[s].doc] = @ \o chunk_entries(h[s])]
            /\ h' = [h EXCEPT ![s].pc = "written"]
            /\ call' = call
       ELSE /\ collections' = collections
            /\ call' = process_pdf_returned(h[s], TRUE, Summary(call))
            /\ h' = [h EXCEPT ![s] = IdleHandler]
    /\ UNCHANGED <<documents, files, faculty_documents, analytics_events,
                   generated_content, nextDoc>>

\* vectorstore.persist() and the return (lines 43-51): persist writes the
\* collection to disk and the call returns chunks_created, or persist raises
\* to the caller; the entries from_texts added stay either way.
ProcessPdfPersist(s, persist_ok) ==
    /\ h[s].kind = "process_pdf" /\ h[s].pc = "written"
    /\ call' = process_pdf_returned(h[s], ~persist_ok, Summary(call))
    /\ h' = [h EXCEPT ![s] = IdleHandler]
    /\ UNCHANGED <<documents, files, collections, faculty_documents,
                   analytics_events, generated_content, nextDoc>>

\* RAGEngine.delete_document called for a document id (line 279): the
\* entries of the id are looked up, or the lookup raises, which is logged and
\* raised to the caller (lines 283-285).
RagDeleteGet(s, doc_id, get_ok) ==
    /\ Idle(s)
    /\ call.op # "generate"
    /\ IF get_ok
       THEN /\ h' = [h EXCEPT ![s] =
                       [kind |-> "delete_document", pc |-> "found",
                        doc |-> doc_id,
                        found |-> where_get(faculty_documents, "document_id",
                                            doc_id)]]
            /\ call' = call
       ELSE /\ call' = [op |-> "delete_document", doc |-> doc_id,
                        raised |-> TRUE, prev |-> Summary(call)]
            /\ h' = h
    /\ UNCHANGED <<documents, files, collections, faculty_documents,
                   analytics_events, generated_content, nextDoc>>

\* if results and results['ids']: self.vectorstore.delete(ids=results['ids'])
\* (lines 280-281): the entries found are deleted from the store as it is by
\* then, or the delete raises, which is logged and raised to the caller;
\* when nothing was found the call returns at once.
RagDeleteIds(s, delete_ok) ==
    /\ h[s].kind = "delete_document" /\ h[s].pc = "found"
    /\ LET returned(raised) == [op |-> "delete_document", doc |-> h[s].doc,
                                raised |-> raised, prev |-> Summary(call)]
       IN IF h[s].found = <<>>
          THEN /\ faculty_documents' = faculty_documents
               /\ call' = returned(FALSE)
          ELSE IF delete_ok
          THEN /\ faculty_documents' = delete_ids(faculty_documents, h[s].found)
               /\ call' = returned(FALSE)
          ELSE /\ faculty_documents' = faculty_documents
               /\ call' = returned(TRUE)
    /\ h' = [h EXCEPT ![s] = IdleHandler]
    /\ UNCHANGED <<documents, files, collections, analytics_events,
                   generated_content, nextDoc>>

\* RAGEngine.get_documents_context called for a list of document ids
\* (lines 239-241): with no id the loop is skipped and the empty text
\* returned.
GetContextBegin(s, document_ids) ==
    /\ Idle(s)
    /\ call.op # "generate"
    /\ IF document_ids = <<>>
       THEN /\ call' = [op |-> "get_documents_context",
                        document_ids |-> document_ids, query_failed |-> FALSE,
                        prev |-> Summary(call), raised |-> FALSE,
                        context |-> context_text(<<>>)]
            /\ h' = h
       ELSE /\ h' = [h EXCEPT ![s] =
                       [kind |-> "get_documents_context", pc |-> "querying",
                        document_ids |-> document_ids, next |-> 1,
                        all_chunks |-> <<>>]]
            /\ call' = call
    /\ UNCHANGED <<documents, files, collections, faculty_documents,
                   analytics_events, generated_content, nextDoc>>

\* One turn of the loop (lines 242-250): the query of the next id against
\* the store as it is by then extends all_chunks; after the last id the
\* context is returned (line 252). A query that raises ends the call in the
\* except branch, which returns (lines 255-257), so the call never ends in
\* an exception.
GetContextQuery(s, query_fails) ==
    /\ h[s].kind = "get_documents_context" /\ h[s].pc = "querying"
    /\ LET ids == h[s].document_ids
           collected == h[s].all_chunks
                        \o query_documents(faculty_documents, ids[h[s].next])
           returned(failed, context) ==
               [op |-> "get_documents_context", document_ids |-> ids,
                query_failed |-> failed, prev |-> Summary(call),
                raised |-> FALSE, context |-> context]
       IN IF query_fails
          THEN /\ call' = returned(TRUE, failed_context(h[s].all_chunks))
               /\ h' = [h EXCEPT ![s] = IdleHandler]
          ELSE IF h[s].next = Len(ids)
          THEN /\ call' = returned(FALSE, context_text(collected))
               /\ h' = [h EXCEPT ![s] = IdleHandler]
          ELSE /\ call' = call
               /\ h' = [h EXCEPT ![s].next = @ + 1,
                                 ![s].all_chunks = collected]
    /\ UNCHANGED <<documents, files, collections, faculty_documents,
                   analytics_events, generated_content, nextDoc>>

\* chain_type="stuff": the texts of the retrieved documents, joined by blank
\* lines, are the context of the prompt.
stuff(docs) == join([i \in 1..Len(docs) |-> docs[i].document])

\* RAGEngine.answer_query / generate_study_notes / generate_practice_questions
\* (rag_engine.py 58-111, 113-174, 176-232): the chain retrieves from the
\* engine's vectorstore, then invokes the model once with the retrieved
\* texts, and the sources are read off the retrieved documents; an exception
\* of either is logged and raised again.
\* The record of a student call that returned or raised.
student_record(run, raised, stage, invocations, docs, sources, prev) ==
    [op |-> "student", mode |-> run.mode, prev |-> prev,
     candidates |-> run.candidates, raised |-> raised, stage |-> stage,
     invocations |-> invocations, source_documents |-> docs,
     prompt_context |-> stuff(docs), sources |-> sources]

\* The similarity search of the chain's retriever over the store as it is:
\* what the call holds while the model is awaited.
retrieved(store, mode) ==
    {[mode |-> mode,
      candidates |-> [i \in 1..Len(store) |-> store[i].document],
      source_documents |-> source_documents(store, R)] :
        R \in Retrievals(store, retriever_k(mode))}

\* The search raised: no model invocation, and the exception is raised again.
search_raised(store, mode, prev) ==
    student_record([mode |-> mode,
                    candidates |-> [i \in 1..Len(store) |-> store[i].document]],
                   TRUE, "retrieve", 0, <<>>, <<>>, prev)

\* The model invocation returned or raised: the records the call can leave.
student_returns(run, llm_ok, prev) ==
    IF ~llm_ok
    THEN {student_record(run, TRUE, "llm", 1, run.source_documents, <<>>, prev)}
    ELSE {student_record(run, FALSE, "none", 1, run.source_documents, sources,
                         prev) :
             sources \in list_of_set(source_names(run.source_documents))}

\* A student-mode call of the RAGEngine by a caller of its own: the
\* retrieval, which reads the store.
StudentRetrieve(s, mode, search_ok) ==
    /\ Idle(s)
    /\ call.op # "generate"
    /\ IF search_ok
       THEN /\ \E run \in retrieved(faculty_documents, mode) :
                  h' = [h EXCEPT ![s] =
                          [kind |-> "student", pc |-> "retrieved"] @@ run]
            /\ call' = call
       ELSE /\ call' = search_raised(faculty_documents, mode, Summary(call))
            /\ h' = h
    /\ UNCHANGED <<documents, files, collections, faculty_documents,
                   analytics_events, generated_content, nextDoc>>

\* The model invocation of the call returns or raises, and the call returns
\* to its caller with what it retrieved before.
StudentAnswer(s, llm_ok) ==
    /\ h[s].kind = "student" /\ h[s].pc = "retrieved"
    /\ call' \in student_returns(h[s], llm_ok, Summary(call))
    /\ h' = [h EXCEPT ![s] = IdleHandler]
    /\ UNCHANGED <<documents, files, collections, faculty_documents,
                   analytics_events, generated_content, nextDoc>>

\* The upload a document id was drawn for: its filename and its owner.
UploadOf(doc_id) ==
    IF doc_id = 1 THEN [filename |-> "a.pdf", uploaded_by |-> "u1"]
    ELSE [filename |-> "b.pdf", uploaded_by |-> "u2"]

\* The steps of the calls of one caller.
ServiceStep(s) ==
    \/ \E doc_id \in DocIds, pdf \in Pdfs :
          ProcessPdfBegin(s, doc_id, UploadOf(doc_id).filename,
                          UploadOf(doc_id).uploaded_by, pdf)
    \/ \E write_ok \in BOOLEAN : ProcessPdfWrite(s, write_ok)
    \/ \E persist_ok \in BOOLEAN : ProcessPdfPersist(s, persist_ok)
    \/ \E doc_id \in DocIds, get_ok \in BOOLEAN : RagDeleteGet(s, doc_id, get_ok)
    \/ \E delete_ok \in BOOLEAN : RagDeleteIds(s, delete_ok)
    \/ \E document_ids \in SeqUpTo(DocIds, MaxDocs) :
          GetContextBegin(s, document_ids)
    \/ \E query_fails \in BOOLEAN : GetContextQuery(s, query_fails)
    \/ \E mode \in StudentModes, search_ok \in BOOLEAN :
          StudentRetrieve(s, mode, search_ok)
    \/ \E llm_ok \in BOOLEAN : StudentAnswer(s, llm_ok)

NextService == \E s \in Sessions : ServiceStep(s)

\* The services as the application runs them: the store and the collections
\* start empty.
SpecService == Init /\ [][NextService]_vars

\* ---- "Send" button of the student portal (Student_Portal.py 131-174)
\* Send runs that have begun and not ended.
sending == {s \in Sessions : h[s].kind = "send" /\ h[s].pc \notin Ended}

\* result = asyncio.run(rag_engine.answer_query(user_input)), or the call of
\* the selected mode (lines 143-148): the retrieval of the call, which reads
\* the store, or raises into the except branch.
SendCall(s, user, mode, search_ok) ==
    /\ Idle(s)
    /\ call.op # "generate"
    /\ Len(analytics_events) + Cardinality(sending) < MaxChats
    /\ IF search_ok
       THEN /\ \E run \in retrieved(faculty_documents, mode) :
                  h' = [h EXCEPT ![s] =
                          [kind |-> "send", user |-> user,
                           pc |-> "retrieved"] @@ run]
            /\ call' = call
       ELSE /\ call' = search_raised(faculty_documents, mode, Summary(call))
            /\ h' = [h EXCEPT ![s] =
                        [kind |-> "send", user |-> user, mode |-> mode,
                         pc |-> "except"]]
    /\ UNCHANGED <<documents, files, collections, faculty_documents,
                   analytics_events, generated_content, nextDoc>>

\* The model invocation of the call returns, and the response is put
\* together (lines 150-163), or it raises into the except branch.
SendAnswer(s, llm_ok) ==
    /\ h[s].kind = "send" /\ h[s].pc = "retrieved"
    /\ call' \in student_returns(h[s], llm_ok, Summary(call))
    /\ h' = [h EXCEPT ![s] =
                [kind |-> "send", user |-> h[s].user, mode |-> h[s].mode,
                 pc |-> IF llm_ok THEN "answered" ELSE "except"]]
    /\ UNCHANGED <<documents, files, collections, faculty_documents,
                   analytics_events, generated_content, nextDoc>>

\* analytics.log_chat_interaction(user_id, selected_mode) (lines 165-168):
\* the event is inserted and st.rerun() ends the run, or the insert raises.
SendLog(s, log_ok) ==
    /\ h[s].kind = "send" /\ h[s].pc = "answered"
    /\ IF log_ok
       THEN /\ analytics_events' =
                 log_event(analytics_events, h[s].user, "chat_interaction",
                           [mode |-> h[s].mode])
            /\ h' = [h EXCEPT ![s].pc = "done"]
       ELSE /\ analytics_events' = analytics_events
            /\ h' = [h EXCEPT ![s].pc = "except"]
    /\ UNCHANGED <<documents, files, collections, faculty_documents,
                   generated_content, nextDoc, call>>

\* except Exception as e: st.error(...); st.info(...)
SendExcept(s) ==
    /\ h[s].kind = "send" /\ h[s].pc = "except"
    /\ h' = [h EXCEPT ![s].pc = "failed"]
    /\ UNCHANGED <<documents, files, collections, faculty_documents,
                   analytics_events, generated_content, nextDoc, call>>

\* The Send handler of all sessions.
NextStudent ==
    \E s \in Sessions :
       \/ \E user \in Users, mode \in StudentModes, search_ok \in BOOLEAN :
             SendCall(s, user, mode, search_ok)
       \/ \E llm_ok \in BOOLEAN : SendAnswer(s, llm_ok)
       \/ \E log_ok \in BOOLEAN : SendLog(s, log_ok)
       \/ SendExcept(s)
       \/ ScriptEnd(s)

\* ---- the generator on its own: one call of generate_assignment,
\* generate_mcqs or generate_viva_questions per behaviour, over every raw
\* model output of up to MaxRawLen lexemes, and the longer texts.
InitGenerator ==
    /\ documents = <<>>
    /\ files = {}
    /\ collections = [d \in DocIds |-> <<>>]
    /\ faculty_documents = <<>>
    /\ analytics_events = <<>>
    /\ generated_content = <<>>
    /\ nextDoc = 0
    /\ h = [s \in Sessions |-> IdleHandler]
    /\ \E content_type \in ContentTypes, num_questions \in 0..MaxQuestions,
          result \in RawTexts :
          call = [op |-> "generate", pc |-> "ready",
                  content_type |-> content_type,
                  num_questions |-> num_questions, result |-> result,
                  questions |-> <<>>, invocations |-> 0, error |-> "",
                  stage |-> "none",
                  context |-> <<>>, prompt_context |-> <<>>]

\* The context argument is cut to its first 3000 characters for the prompt.
PromptCap == 3000

\* The call record after chain.run returned call.result: the parse and the
\* fallback give the questions, or the parse raises.
after_run(c, prompt_context, invocations) ==
    LET r == resolve_questions(c.content_type, c.result, c.num_questions)
    IN IF r.error = ""
       THEN [c EXCEPT !.pc = "returned", !.invocations = invocations,
                      !.prompt_context = prompt_context,
                      !.questions = r.value]
       ELSE [c EXCEPT !.pc = "raised", !.invocations = invocations,
                      !.prompt_context = prompt_context,
                      !.error = r.error, !.stage = "parse"]

\* GenerateCall as it would be if a failed chain.run were tried once more.
GenerateCall_retry(llm_ok) ==
    /\ call.op = "generate" /\ call.pc = "ready"
    /\ call' = IF llm_ok
               THEN after_run(call, take(call.context, PromptCap), 1)
               ELSE [call EXCEPT !.pc = "raised", !.invocations = @ + 2,
                                 !.prompt_context = take(call.context, PromptCap),
                                 !.error = "HfHubHTTPError", !.stage = "llm"]
    /\ UNCHANGED <<documents, files, collections, faculty_documents,
                   analytics_events, generated_content, nextDoc, h>>

\* GenerateCall as it would be if the prompt took the whole context argument.
GenerateCall_whole_context(llm_ok) ==
    /\ call.op = "generate" /\ call.pc = "ready"
    /\ call' = IF llm_ok
               THEN after_run(call, call.context, 1)
               ELSE [call EXCEPT !.pc = "raised", !.invocations = @ + 1,
                                 !.prompt_context = call.context,
                                 !.error = "HfHubHTTPError", !.stage = "llm"]
    /\ UNCHANGED <<documents, files, collections, faculty_documents,
                   analytics_events, generated_content, nextDoc, h>>

\* chain.run(..., context=context[:3000]) is called once: it returns
\* call.result, and the parse and fallback follow; or it raises. Every
\* exception (of the invocation or of the parse) is logged and raised again.
GenerateCall(llm_ok) ==
    /\ call.op = "generate" /\ call.pc = "ready"
    /\ call' = IF llm_ok
               THEN after_run(call, take(call.context, PromptCap), 1)
               ELSE [call EXCEPT !.pc = "raised", !.invocations = @ + 1,
                                 !.prompt_context = take(call.context, PromptCap),
                                 !.error = "HfHubHTTPError", !.stage = "llm"]
    /\ UNCHANGED <<documents, files, collections, faculty_documents,
                   analytics_events, generated_content, nextDoc, h>>

NextGenerator == \E llm_ok \in BOOLEAN : GenerateCall(llm_ok)

SpecGenerator == InitGenerator /\ [][NextGenerator]_vars

\* ---- the generator on outputs that do not parse: one call per behaviour,
\* with num_questions up to MaxFallback and the short raw outputs, none of
\* which holds a non-empty JSON array.
InitFallback ==
    /\ documents = <<>>
    /\ files = {}
    /\ collections = [d \in DocIds |-> <<>>]
    /\ faculty_documents = <<>>
    /\ analytics_events = <<>>
    /\ generated_content = <<>>
    /\ nextDoc = 0
    /\ h = [s \in Sessions |-> IdleHandler]
    /\ \E content_type \in ContentTypes, num_questions \in 0..MaxFallback,
          result \in SeqUpTo(ScanLexemes, 2) :
          call = [op |-> "generate", pc |-> "ready",
                  content_type |-> content_type,
                  num_questions |-> num_questions, result |-> result,
                  questions |-> <<>>, invocations |-> 0, error |-> "",
                  stage |-> "none",
                  context |-> <<>>, prompt_context |-> <<>>]

SpecFallback == InitFallback /\ [][NextGenerator]_vars

\* ---- the model-invoking calls on their own: the generator calls above, and
\* the Send handler of the student portal, whose RAGEngine opens the store
\* as the application leaves it.
InitCalls == InitGenerator \/ Init

NextCalls == NextGenerator \/ NextStudent

SpecCalls == InitCalls /\ [][NextCalls]_vars

\* ---- the prompts of the model-invoking calls: generator calls whose context
\* argument is a text of up to MaxExtra characters, or of up to MaxExtra
\* characters fewer or more than PromptCap, and the Send handler above. A
\* character of the argument is named by its position in it.
ContextLengths ==
    (0..MaxExtra) \cup ((PromptCap - MaxExtra)..(PromptCap + MaxExtra))

InitPrompt ==
    /\ documents = <<>>
    /\ files = {}
    /\ collections = [d \in DocIds |-> <<>>]
    /\ faculty_documents = <<>>
    /\ analytics_events = <<>>
    /\ generated_content = <<>>
    /\ nextDoc = 0
    /\ h = [s \in Sessions |-> IdleHandler]
    /\ \E content_type \in ContentTypes, num_questions \in 0..MaxQuestions,
          result \in {<<>>, QuestionArray}, n \in ContextLengths :
          call = [op |-> "generate", pc |-> "ready",
                  content_type |-> content_type,
                  num_questions |-> num_questions, result |-> result,
                  questions |-> <<>>, invocations |-> 0, error |-> "",
                  stage |-> "none",
                  context |-> [i \in 1..n |-> i], prompt_context |-> <<>>]

SpecPrompt == (InitPrompt \/ Init) /\ [][NextCalls]_vars

\* ---- get_documents_context on its own, over a vectorstore whose entries
\* carry the document_id key the lookup filters on: for each document id a
\* number of chunks, the documents' entries following one another in
\* ascending or in descending order of id. The numbers of chunks are none,
\* one, and two that together with themselves or each other fall below, on
\* and above ContextCap.
StoredCounts == {0, 1, MaxStored - 4, MaxStored}

RECURSIVE keyed_entries(_, _, _)
keyed_entries(stored, doc_id, step) ==
    IF doc_id \notin DocIds THEN <<>>
    ELSE [k \in 1..stored[doc_id] |->
             [document |-> [file |-> doc_id, part |-> k],
              metadata |-> [document_id |-> doc_id]]]
         \o keyed_entries(stored, doc_id + step, step)

InitContext ==
    /\ documents = <<>>
    /\ files = {}
    /\ collections = [d \in DocIds |-> <<>>]
    /\ \E stored \in [DocIds -> StoredCounts], ascending \in BOOLEAN :
          faculty_documents = IF ascending
                              THEN keyed_entries(stored, 1, 1)
                              ELSE keyed_entries(stored, MaxDocs, -1)
    /\ analytics_events = <<>>
    /\ generated_content = <<>>
    /\ nextDoc = 0
    /\ h = [s \in Sessions |-> IdleHandler]
    /\ call = NoCall

NextContext ==
    \E s \in Sessions :
       \/ \E document_ids \in SeqUpTo(DocIds, MaxDocs) :
             GetContextBegin(s, document_ids)
       \/ \E query_fails \in BOOLEAN : GetContextQuery(s, query_fails)

SpecContext == InitContext /\ [][NextContext]_vars

\* ---- the index under calls that overlap: ingestions, lookups and deletions
\* of all callers, step by step. The engine's store is empty, as the
\* application leaves it, or it holds for each document id no entry or one
\* entry with the document_id key, so that the lookups and the deletions
\* have entries to find and to delete. The lookups are of no id, and of one
\* or both ids in either order.
InitIndex ==
    /\ documents = <<>>
    /\ files = {}
    /\ collections = [d \in DocIds |-> <<>>]
    /\ \E stored \in [DocIds -> 0..1] :
          faculty_documents = keyed_entries(stored, 1, 1)
    /\ analytics_events = <<>>
    /\ generated_content = <<>>
    /\ nextDoc = 0
    /\ h = [s \in Sessions |-> IdleHandler]
    /\ call = NoCall

NextIndex ==
    \E s \in Sessions :
       \/ \E doc_id \in DocIds, pdf \in Pdfs :
             ProcessPdfBegin(s, doc_id, UploadOf(doc_id).filename,
                             UploadOf(doc_id).uploaded_by, pdf)
       \/ \E write_ok \in BOOLEAN : ProcessPdfWrite(s, write_ok)
       \/ \E persist_ok \in BOOLEAN : ProcessPdfPersist(s, persist_ok)
       \/ \E doc_id \in DocIds, get_ok \in BOOLEAN :
             RagDeleteGet(s, doc_id, get_ok)
       \/ \E delete_ok \in BOOLEAN : RagDeleteIds(s, delete_ok)
       \/ \E document_ids \in {<<>>} \cup Selections(DocIds) :
             GetContextBegin(s, document_ids)
       \/ \E query_fails \in BOOLEAN : GetContextQuery(s, query_fails)

SpecIndex == InitIndex /\ [][NextIndex]_vars

\* ---- the generated_content table next to the other tables: direct calls
\* of the Database operations that write, of the read of a faculty's
\* contents, and of the analytics call that no page makes.
\* The document_ids lists the stores are given: the first k ids, in
\* ascending and in descending order.
DocumentIdLists ==
    {[i \in 1..k |-> i] : k \in 1..MaxDocs}
    \cup {[i \in 1..k |-> k + 1 - i] : k \in 1..MaxDocs}

\* Raw model outputs whose questions are stored: those the handler runs try
\* that parse, and an object that repeats a key and holds a list, a number
\* and literal names.
ContentSamples ==
    {raw \in RawSamples : _parse_json_response(raw).error = ""}
    \cup {<<"[", "{", Quote, "x", Quote, ":", "null", ",",
            Quote, "options", Quote, ":", "[", "7", ",", "NaN", "]", ",",
            Quote, "x", Quote, ":", "true", "}", "]">>}

\* What the stores so far were given, by content id: a call record hands it
\* on to the next.
Given(c) == IF "given" \in DOMAIN c THEN c.given ELSE <<>>

\* Database.store_generated_content called with a fresh content id (the
\* caller's uuid4) and the questions a generator call returned.
StoreContentCall(content_type, faculty_id, document_ids, result, num_questions, now) ==
    /\ call.op # "generate"
    /\ Len(generated_content) + Len(analytics_events) < MaxRows
    /\ now \in Seconds(generated_content)
    /\ resolve_questions(content_type, result, num_questions).error = ""
    /\ LET content ==
              resolve_questions(content_type, result, num_questions).value
           content_id == Len(generated_content) + 1
       IN /\ generated_content' =
                store_generated_content(generated_content, content_id,
                                        content_type, faculty_id, document_ids,
                                        content, now)
          /\ call' = [op |-> "store_generated_content",
                      given |-> Append(Given(call),
                                       [content_id |-> content_id,
                                        content_type |-> content_type,
                                        faculty_id |-> faculty_id,
                                        document_ids |-> document_ids,
                                        content |-> content])]
    /\ UNCHANGED <<documents, files, collections, faculty_documents,
                   analytics_events, nextDoc, h>>

\* Database.get_generated_content_by_faculty called for a faculty.
GetContentCall(faculty_id) ==
    /\ call.op # "generate"
    /\ call' = [op |-> "get_generated_content_by_faculty",
                faculty_id |-> faculty_id, given |-> Given(call),
                contents |-> get_generated_content_by_faculty(
                                generated_content, faculty_id)]
    /\ UNCHANGED <<documents, files, collections, faculty_documents,
                   analytics_events, generated_content, nextDoc, h>>

\* Database.create_document called with a fresh id and no status argument.
CreateDocumentCall(doc_id, filename, uploaded_by) ==
    /\ call.op # "generate"
    /\ doc_id \notin DOMAIN documents
    /\ documents' = create_document(documents, doc_id, filename, uploaded_by,
                                    "queued")
    /\ UNCHANGED <<files, collections, faculty_documents, analytics_events,
                   generated_content, nextDoc, h, call>>

\* Database.update_document_status called with a status alone.
UpdateStatusCall(doc_id, status) ==
    /\ call.op # "generate"
    /\ documents' = update_document_status(documents, doc_id, status, None,
                                           None)
    /\ UNCHANGED <<files, collections, faculty_documents, analytics_events,
                   generated_content, nextDoc, h, call>>

\* Database.delete_document called for an id.
DeleteDocumentCall(doc_id) ==
    /\ call.op # "generate"
    /\ documents' = delete_document(documents, doc_id)
    /\ UNCHANGED <<files, collections, faculty_documents, analytics_events,
                   generated_content, nextDoc, h, call>>

\* AnalyticsService.log_admin_action called by a caller of the service (no
\* page calls it): the event is inserted with the action and its target.
LogAdminActionCall(admin_id, action, target_id) ==
    /\ call.op # "generate"
    /\ Len(generated_content) + Len(analytics_events) < MaxRows
    /\ analytics_events' =
          log_event(analytics_events, admin_id, "admin_action",
                    [action |-> action, target_id |-> target_id])
    /\ UNCHANGED <<documents, files, collections, faculty_documents,
                   generated_content, nextDoc, h, call>>

\* The actions an admin logs, and the documents they are about.
AdminActions == {"delete_document"}

\* The document operations are called for one document.
NextContent ==
    \/ \E content_type \in ContentTypes, faculty_id \in Users,
          document_ids \in DocumentIdLists, result \in ContentSamples,
          num_questions \in 1..MaxQuestions, now \in 1..(MaxRows + 1) :
          StoreContentCall(content_type, faculty_id, document_ids, result,
                           num_questions, now)
    \/ \E faculty_id \in Users : GetContentCall(faculty_id)
    \/ CreateDocumentCall(1, "a.pdf", "u1")
    \/ UpdateStatusCall(1, "completed")
    \/ DeleteDocumentCall(1)
    \/ \E admin_id \in Users, action \in AdminActions, target_id \in DocIds :
          LogAdminActionCall(admin_id, action, target_id)

SpecContent == Init /\ [][NextContent]_vars

\* ============================================================ properties
Terminal == {"completed", "failed"}
IngestionStages == {"extract", "empty", "chunk", "index"}

\* The texts a collection holds, in index order.
documents_of(coll) == [i \in 1..Len(coll) |-> coll[i].document]

\* ---- helpers that say what a raw output holds without running the parser
Opens(raw) == {i \in 1..Len(raw) : raw[i] \in {"[", "[["}}
Closes(raw) == {i \in 1..Len(raw) : raw[i] = "]"}

\* The substring from the first '[' to the last ']'.
Bracketed(raw) == SubSeq(raw, Min(Opens(raw)), Max(Closes(raw)))

\* There is a '[' and a later ']' and json.loads accepts the substring
\* between them.
HasValidArray(raw) ==
    /\ Opens(raw) # {}
    /\ Closes(raw) # {}
    /\ Max(Closes(raw)) > Min(Opens(raw))
    /\ json_loads(Bracketed(raw)).error = ""

\* The value json.loads gives for that substring: a list.
ExpectedElements(raw) == json_loads(Bracketed(raw)).value.items

\* s is valid by the JSON grammar, which has no limit on the digits of a
\* number and knows the literal names null, true and false only; a run of
\* '[' as long as the recursion limit would need as many ']' after it, more
\* than any text here holds.
ValidJson(s) ==
    /\ \A i \in 1..Len(s) : s[i] \notin {"[[", "NaN", "Infinity", "-Infinity"}
    /\ json_loads([i \in 1..Len(s) |->
                      IF s[i] = "big" THEN "num" ELSE s[i]]).error = ""

PlaceholderFields(content_type) ==
    CASE content_type = "assignment" ->
            {"question_number", "question", "type", "marks", "marking_scheme",
             "sample_answer"}
      [] content_type = "mcq" ->
            {"question_number", "question", "options", "correct_answer",
             "explanation"}
      [] content_type = "viva" ->
            {"question_number", "question", "type", "key_points", "difficulty"}

\* questions is n placeholders of the content type, numbered 1..n.
IsPlaceholderList(questions, content_type, n) ==
    /\ Len(questions) = n
    /\ \A k \in 1..n :
          /\ DOMAIN questions[k] = PlaceholderFields(content_type)
          /\ questions[k].question_number = k

\* questions came out of the parser: every element is a parsed JSON value.
IsParsedList(questions) ==
    \A k \in 1..Len(questions) : "kind" \in DOMAIN questions[k]

\* The upload run of session s, and the generation run of session s.
Uploading(s) == h[s].kind = "upload"
Generating(s) == h[s].kind = "generate"

\* ---- C1
\* C1 (as claimed): once a document's status is completed or failed, no later
\* step changes its row (status, chunk count, error message); the row can
\* only be deleted.
C1_TerminalIsFinal ==
    [][\A d \in DOMAIN documents :
          documents[d].status \in Terminal =>
             (d \notin DOMAIN documents' \/ documents'[d] = documents[d])]_vars

\* ---- C2
\* C2 (as claimed): every row is created with status queued, moves from
\* queued to processing, and from processing to completed or failed; no
\* other status change occurs.
C2_QueuedFirst ==
    [][\A d \in DocIds :
          /\ (d \notin DOMAIN documents /\ d \in DOMAIN documents')
                => documents'[d].status = "queued"
          /\ (d \in DOMAIN documents /\ d \in DOMAIN documents'
              /\ documents'[d].status # documents[d].status)
                => <<documents[d].status, documents'[d].status>> \in
                      {<<"queued", "processing">>, <<"processing", "completed">>,
                       <<"processing", "failed">>}]_vars

\* ---- C3
\* C3 (as claimed): when the upload handler has ended after an ingestion
\* stage (extraction, emptiness check, chunking, embedding/index write)
\* raised, the document's row, if it is still there, has status failed and
\* holds the error's text; it is not left in processing.
C3_IngestionErrorRecorded ==
    \A s \in Sessions :
       (/\ Uploading(s) /\ h[s].pc \in Ended
        /\ h[s].stage \in IngestionStages
        /\ h[s].doc \in DOMAIN documents)
          => /\ documents[h[s].doc].status = "failed"
             /\ documents[h[s].doc].error_message = Some(h[s].error)

\* ---- C4
\* C4 (as claimed): after the delete handler has removed a document, the
\* index holds no entry of that document.
C4_DeleteClearsIndex ==
    \A s \in Sessions :
       (h[s].kind = "delete" /\ h[s].pc = "done") =>
           /\ Len(collections[h[s].doc]) = 0
           /\ Len(where_get(faculty_documents, "document_id", h[s].doc)) = 0

\* ---- C5
\* C5 (as claimed): right after process_pdf succeeded for document id d,
\* get_documents_context([d]) returns the texts of d's entries (the first
\* ContextCap of them, in index order) joined by blank lines.
C5_ContextFindsIngested ==
    (/\ call.op = "get_documents_context"
     /\ ~call.query_failed
     /\ call.prev.op = "process_pdf"
     /\ call.document_ids = <<call.prev.doc>>)
        => call.context =
              join(take(documents_of(collections[call.prev.doc]), ContextCap))

\* ---- C6
\* C6 (as claimed): whatever the raw output and n >= 0, a call whose model
\* invocation returned does not raise and returns exactly n question
\* objects.
C6_ExactlyN ==
    (call.op = "generate" /\ call.pc # "ready" /\ call.stage # "llm")
        => /\ call.pc = "returned"
           /\ Len(call.questions) = call.num_questions
           /\ \A k \in 1..Len(call.questions) :
                 render_question_card(call.questions[k], TRUE) = ""

\* ---- C7
\* C7 (as claimed): when the substring from the first '[' to the last ']' is
\* valid JSON, the call returns that parsed value, an empty array included.
C7_ParsedUnchanged ==
    (call.op = "generate" /\ call.pc # "ready" /\ call.stage # "llm"
     /\ HasValidArray(call.result))
        => /\ call.pc = "returned"
           /\ call.questions = ExpectedElements(call.result)

\* C7 (amended): when that substring is valid JSON for a non-empty array the
\* call returns the parsed value unchanged; when it is the empty array the
\* call returns num_questions placeholders instead.
C7_NonEmptyParsedUnchanged ==
    (call.op = "generate" /\ call.pc # "ready" /\ call.stage # "llm"
     /\ HasValidArray(call.result))
        => /\ call.pc = "returned"
           /\ IF ExpectedElements(call.result) # <<>>
              THEN call.questions = ExpectedElements(call.result)
              ELSE IsPlaceholderList(call.questions, call.content_type,
                                     call.num_questions)

\* An object with an array of its own inside the array: the
\* slice runs to the outer ']' and the object is returned as parsed.
C7_Witness ==
    /\ call.op = "generate" /\ call.pc = "returned"
    /\ call.result = <<"[", "{", Quote, "question", Quote, ":", "num", ",",
                       Quote, "options", Quote, ":", "[", "]", "}", "]">>
    /\ Len(call.questions) = 1
    /\ call.questions[1].kind = "obj"
    /\ call.questions[1].members[<<"options">>] = [kind |-> "arr", items |-> <<>>]

\* ---- C8
\* C8 (as claimed): a generation call with num_questions >= 1 whose model
\* invocation returned gives its caller a non-empty list, whatever the text.
C8_NonEmpty ==
    (/\ call.op = "generate" /\ call.pc # "ready" /\ call.stage # "llm"
     /\ call.num_questions >= 1)
        => /\ call.pc = "returned"
           /\ Len(call.questions) >= 1

\* ---- C9
\* C9 (as claimed): every generation request whose model invocation returned
\* text (and whose database and analytics calls did not raise) completes,
\* with a generated_content row of the requested type stored.
C9_RequestCompletes ==
    \A s \in Sessions :
       (/\ Generating(s) /\ h[s].returned
        /\ h[s].pc \in {"done", "failed"}
        /\ h[s].stage \notin {"store", "analytics"})
          => /\ h[s].pc = "done"
             /\ h[s].stored = 1
             /\ \E i \in 1..Len(generated_content) :
                   /\ generated_content[i].content_type = h[s].content_type
                   /\ json_loads(generated_content[i].content).value
                         = questions_value(h[s].questions)

\* ---- C10
\* C10 (as claimed): after process_pdf succeeded twice in a row for the same
\* document id, the id's collection holds as many entries as the second
\* ingestion produced chunks.
C10_ReingestOverwrites ==
    (/\ call.op = "process_pdf" /\ ~call.raised
     /\ call.prev.op = "process_pdf" /\ call.prev.doc = call.doc)
        => Len(collections[call.doc]) = call.chunks_created

\* ---- C11
\* C11: a generation call (assignment, mcq, viva) and a student call (qa,
\* notes, practice) invoke the model exactly once when they reach the
\* invocation: a call that returned has made one invocation; a call whose
\* invocation raised has made one invocation, made no second one, and raised
\* to its caller without a result; no call makes more than one.
C11_OneInvocation ==
    /\ call.op = "generate" =>
          /\ call.pc = "ready" => call.invocations = 0
          /\ call.pc = "returned" => call.invocations = 1
          /\ call.pc = "raised" =>
                call.invocations = 1 /\ call.questions = <<>>
    /\ call.op = "student" =>
          /\ call.invocations <= 1
          /\ ~call.raised => call.invocations = 1
          /\ (call.raised /\ call.stage = "llm") =>
                call.invocations = 1 /\ call.sources = <<>>
          /\ call.invocations = 0 => (call.raised /\ call.stage = "retrieve")

\* The model invocation of a generation call raised, after one attempt.
C11_Witness ==
    /\ call.op = "generate" /\ call.pc = "raised"
    /\ call.invocations = 1

\* ---- C12
\* C12: when get_documents_context finds no chunk for the selected ids (the
\* query itself may fail too), it returns the empty string and does not
\* raise: the step that calls it always leaves the handler ready to invoke
\* the model, with the empty context. The request then invokes the model
\* (the invocation returns or raises), and it never fails because of the
\* empty context: when it ends in the except branch, it is the model
\* invocation, the parse, the database, the analytics call or the display
\* of the questions that raised; otherwise it completes.
C12_EmptyContextProceeds ==
    /\ [][\A s \in Sessions :
             (Generating(s) /\ h[s].pc = "selected" /\ h'[s] # h[s]
              /\ all_chunks(faculty_documents, h[s].selected_docs) = <<>>)
                => /\ h'[s].pc = "context"
                   /\ h'[s].context = <<>>
                   /\ h'[s].error = ""]_vars
    /\ [](\A s \in Sessions :
             (Generating(s)
              /\ all_chunks(faculty_documents, h[s].selected_docs) = <<>>)
                => /\ h[s].context = <<>>
                   /\ h[s].pc \notin {"selected", "context"} =>
                         (h[s].returned \/ h[s].stage = "llm")
                   /\ h[s].pc \in {"except", "failed"} =>
                         h[s].stage \in {"llm", "parse", "store", "analytics",
                                         "render"}
                   /\ (h[s].pc \in Ended /\ h[s].stage = "none") =>
                         h[s].pc = "done")

\* A request over a document whose chunks are indexed got the empty context
\* and completed with the placeholders.
C12_Witness ==
    \E s \in Sessions :
       /\ Generating(s) /\ h[s].pc = "done"
       /\ h[s].context = <<>> /\ h[s].returned
       /\ Len(collections[h[s].selected_docs[1]]) > 0
       /\ IsPlaceholderList(h[s].questions, h[s].content_type,
                            h[s].num_questions)

\* ---- C13
\* C13 (as claimed): a student call made right after process_pdf succeeded
\* for a document searches over that document's chunks: every chunk the
\* ingestion wrote is a candidate of the similarity search.
C13_SearchCoversIngested ==
    (call.op = "student" /\ ~call.raised /\ call.prev.op = "process_pdf")
        => \A i \in 1..Len(collections[call.prev.doc]) :
              \E j \in 1..Len(call.candidates) :
                 call.candidates[j] = collections[call.prev.doc][i].document

C15_StoredIsImmutable ==
    /\ [][\A i \in 1..Len(generated_content) :
              /\ i <= Len(generated_content')
              /\ generated_content'[i] = generated_content[i]]_vars
    /\ [](call.op = "get_generated_content_by_faculty"
            => LET mine == {i \in 1..Len(call.given) :
                              call.given[i].faculty_id = call.faculty_id}
               IN /\ Len(call.contents) = Cardinality(mine)
                  /\ \A i \in mine :
                        \E k \in 1..Len(call.contents) :
                           LET record == call.contents[k]
                           IN /\ record.content_id = call.given[i].content_id
                              /\ record.content =
                                    questions_value(call.given[i].content)
                              /\ record.document_ids =
                                    document_ids_value(call.given[i].document_ids)
                              /\ record.content_type =
                                    call.given[i].content_type
                              /\ record.faculty_id = call.faculty_id
                  /\ \A k \in 1..(Len(call.contents) - 1) :
                        call.contents[k].created_at
                           >= call.contents[k + 1].created_at)

\* Two stores were made for one faculty, the second a second after the
\* first and with two placeholders over the documents 2 and 1, and while a
\* document row was in the table; the read returns the second first, then
\* the first, a parsed object whose repeated key kept its first place and
\* its last value.
C15_Witness ==
    /\ call.op = "get_generated_content_by_faculty"
    /\ Len(call.contents) = 2 /\ Len(call.given) = 2
    /\ 1 \in DOMAIN documents
    /\ call.contents[1].content_id = 2
    /\ call.contents[1].created_at > call.contents[2].created_at
    /\ Len(call.given[2].content) = 2
    /\ call.given[2].document_ids = <<2, 1>>
    /\ call.contents[1].document_ids = Arr(<<Str(<<"2">>), Str(<<"1">>)>>)
    /\ call.contents[1].content = questions_value(call.given[2].content)
    /\ call.contents[2].content =
          Arr(<<[kind |-> "obj",
                 keys |-> <<<<"x">>, <<"options">>>>,
                 members |->
                    (<<"x">> :> [kind |-> "true"])
                    @@ (<<"options">> :>
                           Arr(<<[kind |-> "num", literal |-> "7"],
                                 [kind |-> "NaN"]>>))]>>)

\* ---- C16
\* C16 (as claimed): when the extracted text is blank, or the splitter
\* yields no chunk, the process_pdf step raises without writing to the index
\* (every collection is as it was before the step), and once the handler has
\* ended the document's row, if it is still there, has status failed and a
\* non-empty error message.
C16_BlankFailsBeforeIndex ==
    /\ [][\A s \in Sessions :
             (/\ Uploading(s) /\ h[s].pc = "created"
              /\ h'[s].pc = "except" /\ h'[s].stage \in {"empty", "chunk"})
                => /\ collections' = collections
                   /\ faculty_documents' = faculty_documents]_vars
    /\ [](\A s \in Sessions :
             (/\ Uploading(s) /\ h[s].pc \in Ended
              /\ h[s].stage \in {"empty", "chunk"}
              /\ h[s].doc \in DOMAIN documents)
                => /\ documents[h[s].doc].status = "failed"
                   /\ documents[h[s].doc].error_message # None
                   /\ documents[h[s].doc].error_message[1] # "")

\* ---- C17
\* C17 (as claimed): every entry a successful process_pdf wrote carries
\* metadata with exactly the keys document_id, filename and uploaded_by,
\* holding the call's document id, filename and owner; document_id is the
\* key get_documents_context and delete_document filter on.
C17_MetadataKeys ==
    (call.op = "process_pdf" /\ ~call.raised)
        => \A i \in 1..Len(collections[call.doc]) :
              LET m == collections[call.doc][i].metadata
              IN /\ DOMAIN m = {"document_id", "filename", "uploaded_by"}
                 /\ m["document_id"] = call.doc
                 /\ m["filename"] = call.filename
                 /\ m["uploaded_by"] = call.uploaded_by

\* ---- C18
\* C18: a successful process_pdf step returns as chunks_created the number
\* of chunks the splitter produced, which is the number of entries the step
\* added to the document's collection (one per chunk, in order); and a row
\* with status completed stores that number, which is the number of entries
\* of its collection.
C18_ChunksCreatedCounts ==
    /\ [][\A s \in Sessions :
             (Uploading(s) /\ h[s].pc = "created" /\ h'[s].pc = "processed")
                => /\ h'[s].chunks >= 1
                   /\ Len(collections'[h[s].doc]) =
                         Len(collections[h[s].doc]) + h'[s].chunks
                   /\ \A k \in 1..h'[s].chunks :
                         collections'[h[s].doc]
                                     [Len(collections[h[s].doc]) + k].document
                            = [file |-> h[s].doc, part |-> k]]_vars
    /\ [](\A d \in DOMAIN documents :
             documents[d].status = "completed"
                => documents[d].chunks_created = Some(Len(collections[d])))
    /\ [](\A s \in Sessions :
             (/\ Uploading(s) /\ h[s].pc \in {"completed", "done"}
              /\ h[s].doc \in DOMAIN documents)
                => /\ documents[h[s].doc].status = "completed"
                   /\ documents[h[s].doc].chunks_created = Some(h[s].chunks))

\* An upload of a PDF of two chunks has run to its end.
C18_Witness ==
    \E s \in Sessions :
       /\ Uploading(s) /\ h[s].pc = "done"
       /\ h[s].chunks = 2
       /\ documents[h[s].doc].chunks_created = Some(2)
       /\ Len(collections[h[s].doc]) = 2

\* ---- C19
\* C19 (as claimed): given that every step of a running upload handler
\* returns or raises, no row stays in processing for ever: whenever some row
\* is in processing, a state follows in which no row is.
C19_ProcessingSettles ==
    (\E d \in DOMAIN documents : documents[d].status = "processing")
       ~> (\A d \in DOMAIN documents : documents[d].status # "processing")

\* ---- C20
\* C20 (as claimed): when the raw output has no '[', or has no ']' after its
\* first '[', or the substring from the first '[' to the last ']' is not
\* valid JSON, a finished call either raised because the model invocation
\* raised (never because of the parse), or returned exactly num_questions
\* placeholders of the requested type, numbered 1..num_questions in order.
C20_FallbackOnParseFailure ==
    LET raw == call.result
        no_open == Opens(raw) = {}
        no_close_after ==
            /\ Opens(raw) # {}
            /\ \A j \in Closes(raw) : j < Min(Opens(raw))
        not_json ==
            /\ Opens(raw) # {}
            /\ \E j \in Closes(raw) : j > Min(Opens(raw))
            /\ ~ValidJson(Bracketed(raw))
    IN (/\ call.op = "generate" /\ call.pc # "ready"
        /\ (no_open \/ no_close_after \/ not_json))
          => /\ call.pc = "raised" => call.error = "HfHubHTTPError"
             /\ call.pc = "returned" =>
                   IsPlaceholderList(call.questions, call.content_type,
                                     call.num_questions)

\* ---- C21
\* C21: when an MCQ call falls back to placeholders, it returns
\* num_questions objects, each with exactly the fields question_number,
\* question, options, correct_answer and explanation, whose options have
\* exactly the keys A, B, C, D and whose correct_answer is A.
C21_McqPlaceholderShape ==
    (/\ call.op = "generate" /\ call.pc = "returned"
     /\ call.content_type = "mcq"
     /\ _parse_json_response(call.result) = Parsed(<<>>))
        => /\ Len(call.questions) = call.num_questions
           /\ \A k \in 1..Len(call.questions) :
                 LET q == call.questions[k]
                 IN /\ DOMAIN q = {"question_number", "question", "options",
                                   "correct_answer", "explanation"}
                    /\ DOMAIN q.options = {"A", "B", "C", "D"}
                    /\ q.correct_answer \in DOMAIN q.options
                    /\ q.correct_answer = "A"

\* Prose came back for an MCQ call of five questions.
C21_Witness ==
    /\ call.op = "generate" /\ call.pc = "returned"
    /\ call.content_type = "mcq" /\ call.num_questions = 5
    /\ call.result = <<"x">>
    /\ Len(call.questions) = 5
    /\ DOMAIN call.questions[5].options = {"A", "B", "C", "D"}

\* ---- C30
\* C30: when an assignment call falls back, the object at 0-based position
\* p has marks 5 when p < num_questions // 2 and marks 10 otherwise, and
\* type theory when p is even and analytical when p is odd; when a viva call
\* falls back, every object has type conceptual, difficulty medium and a
\* key_points list of exactly three strings.
C30_AssignmentVivaPlaceholders ==
    (/\ call.op = "generate" /\ call.pc = "returned"
     /\ _parse_json_response(call.result) = Parsed(<<>>))
        => /\ call.content_type = "assignment" =>
                 /\ Len(call.questions) = call.num_questions
                 /\ \A k \in 1..Len(call.questions) :
                       LET q == call.questions[k]
                           p == k - 1
                       IN /\ q.marks = IF 2 * p + 2 <= call.num_questions
                                       THEN 5 ELSE 10
                          /\ q.type = IF p % 2 = 0 THEN "theory"
                                      ELSE "analytical"
           /\ call.content_type = "viva" =>
                 /\ Len(call.questions) = call.num_questions
                 /\ \A k \in 1..Len(call.questions) :
                       LET q == call.questions[k]
                       IN /\ q.type = "conceptual"
                          /\ q.difficulty = "medium"
                          /\ Len(q.key_points) = 3
                          /\ \A j \in 1..3 :
                                q.key_points[j] \in
                                   {"Key point 1", "Key point 2", "Key point 3"}

\* Five assignment placeholders: two of 5 marks, then three of 10.
C30_Witness ==
    /\ call.op = "generate" /\ call.pc = "returned"
    /\ call.content_type = "assignment" /\ call.num_questions = 5
    /\ call.result = <<"[", "]">>
    /\ [k \in 1..5 |-> call.questions[k].marks] = <<5, 5, 10, 10, 10>>
    /\ [k \in 1..5 |-> call.questions[k].type] =
          <<"theory", "analytical", "theory", "analytical", "theory">>

\* ---- C22
\* The (position in the id list, position in the store) pairs of the chunks
\* a lookup meets: ids in the given order, and for one id the store's
\* entries of that id in index order.
Met(store, ids) ==
    {<<i, j>> \in (1..Len(ids)) \X (1..Len(store)) :
        store[j].metadata.document_id = ids[i]}

\* The number of pairs of P that come at or before the pair p.
Rank(P, p) ==
    Cardinality({q \in P : q[1] < p[1] \/ (q[1] = p[1] /\ q[2] <= p[2])})

\* C22: a lookup that did not fail returns the first ContextCap (20) chunks
\* met, ids in the given order and chunks of an id in index order, joined by
\* blank lines; when more than 20 are met the 21st and later ones do not
\* appear, and the cap counts the chunks of all ids together.
C22_FirstTwentyChunks ==
    (call.op = "get_documents_context" /\ ~call.query_failed)
        => LET P == Met(faculty_documents, call.document_ids)
               n == IF Cardinality(P) > 20 THEN 20 ELSE Cardinality(P)
           IN /\ Len(call.context) = IF n = 0 THEN 0 ELSE 2 * n - 1
              /\ \A k \in 1..n :
                    \E p \in P :
                       /\ Rank(P, p) = k
                       /\ call.context[2 * k - 1] =
                             faculty_documents[p[2]].document
              /\ \A k \in 1..(n - 1) : call.context[2 * k] = Separator

\* Two documents of 12 chunks each: the context holds the 12 chunks of the
\* first id and the first 8 of the second.
C22_Witness ==
    /\ call.op = "get_documents_context" /\ ~call.query_failed
    /\ call.document_ids = <<2, 1>>
    /\ Cardinality(Met(faculty_documents, call.document_ids)) = 24
    /\ Len(call.context) = 39
    /\ call.context[23] = [file |-> 2, part |-> 12]
    /\ call.context[39] = [file |-> 1, part |-> 8]

\* ---- C23
\* C23: the context a faculty-mode call (assignment, mcq, viva) gives the
\* prompt is the first 3000 characters of its context argument, the whole
\* argument when it is shorter; the context a student-mode call gives the
\* prompt is every retrieved document, whole and in order, joined by blank
\* lines, with nothing cut.
C23_PromptContext ==
    /\ (call.op = "generate" /\ call.invocations > 0)
          => /\ Len(call.prompt_context) =
                   IF Len(call.context) <= 3000 THEN Len(call.context) ELSE 3000
             /\ \A i \in 1..Len(call.prompt_context) :
                   call.prompt_context[i] = call.context[i]
    /\ (call.op = "student" /\ call.invocations > 0)
          => LET docs == call.source_documents
             IN /\ Len(call.prompt_context) =
                      IF docs = <<>> THEN 0 ELSE 2 * Len(docs) - 1
                /\ \A i \in 1..Len(docs) :
                      call.prompt_context[2 * i - 1] = docs[i].document

\* An mcq call with a context argument of 3004 characters has put its first
\* 3000 characters in the prompt.
C23_Witness ==
    /\ call.op = "generate" /\ call.pc = "returned"
    /\ call.content_type = "mcq"
    /\ Len(call.context) = 3004
    /\ Len(call.prompt_context) = 3000
    /\ call.prompt_context[3000] = call.context[3000]

\* ---- C24
\* The step that session s takes is a step of an ingestion past the split,
\* and it is the index write (from_texts) of that ingestion.
IngestionStep(s) == h[s].kind = "process_pdf" /\ h'[s] # h[s]
IndexWrite(s) == IngestionStep(s) /\ h[s].pc = "split"

\* C24: with the ingestions, lookups and deletions of all callers going on
\* step by step, every entry of a document's collection carries that
\* document's id and text; the collection of a document B changes only in
\* the index write of an ingestion of B, which adds entries after those it
\* holds; so an ingestion of another document A leaves every entry of B as
\* it was (nothing added, removed or changed), as it leaves the engine's
\* shared store and the calls in progress of the other callers.
C24_IngestionIsolated ==
    /\ [](\A b \in DocIds :
             \A i \in 1..Len(collections[b]) :
                /\ collections[b][i].metadata.doc_id = b
                /\ collections[b][i].document.file = b)
    /\ [][\A b \in DocIds :
             /\ collections'[b] # collections[b]
                   => /\ \E s \in Sessions : IndexWrite(s) /\ h[s].doc = b
                      /\ Len(collections'[b]) > Len(collections[b])
                      /\ SubSeq(collections'[b], 1, Len(collections[b]))
                            = collections[b]
             /\ \A s \in Sessions :
                   (IngestionStep(s) /\ h[s].doc # b)
                      => /\ collections'[b] = collections[b]
                         /\ faculty_documents' = faculty_documents
                         /\ \A t \in Sessions \ {s} : h'[t] = h[t]]_vars

\* An ingestion of document 1 returned while the other caller, which looked
\* up the entries of document 2 in the engine's store to delete them, has
\* not deleted them yet; document 2 was ingested before, and both
\* collections hold the entries of their own document.
C24_Witness ==
    /\ call.op = "process_pdf" /\ ~call.raised /\ call.doc = 1
    /\ Len(collections[1]) = call.chunks_created
    /\ Len(collections[2]) = 2
    /\ \A i \in 1..2 : collections[2][i].metadata.doc_id = 2
    /\ \E s \in Sessions :
          /\ h[s].kind = "delete_document" /\ h[s].doc = 2
          /\ h[s].found # <<>>

\* ---- C25
\* What a step of the upload run of session s respects: the record is
\* created only once the file is written; process_pdf is invoked (the step
\* that leaves the run with a result or an exception of process_pdf, the
\* only step that writes the index) only while the file is written and the
\* record exists.
FileThenRecordThenProcess(s) ==
    /\ (documents' # documents /\ h'[s].kind = "upload"
        /\ h'[s].pc = "created") =>
          /\ h'[s].doc \in files
          /\ h'[s].doc \notin DOMAIN documents
          /\ h'[s].doc \in DOMAIN documents'
    /\ (h[s].kind = "upload" /\ h[s].pc = "created" /\ h'[s] # h[s]) =>
          /\ h[s].doc \in files
          /\ h[s].doc \in DOMAIN documents

\* C25 (as claimed): every step of an upload keeps the order file written,
\* record created, process_pdf invoked, and process_pdf is never invoked for
\* a document id without a record; an upload that failed before its record
\* was created has no record at all, so none in a non-terminal state.
C25_UploadOrder ==
    /\ [][\A s \in Sessions : FileThenRecordThenProcess(s)]_vars
    /\ [](\A s \in Sessions :
             (h[s].kind = "upload" /\ h[s].stage \in {"write", "create"}) =>
                h[s].doc \notin DOMAIN documents)

\* ---- C26
\* C26: in every state of the documents table a completed row has a chunk
\* count and no error message, a failed row has an error message and no
\* chunk count, and a row still in processing has neither: a status update
\* writes both columns, so nothing of an earlier status stays behind.
C26_StatusFieldsAgree ==
    \A d \in DOMAIN documents :
       /\ documents[d].status = "completed"
            => /\ documents[d].chunks_created # None
               /\ documents[d].error_message = None
       /\ documents[d].status = "failed"
            => /\ documents[d].error_message # None
               /\ documents[d].chunks_created = None
       /\ documents[d].status = "processing"
            => /\ documents[d].error_message = None
               /\ documents[d].chunks_created = None

\* A row that was completed with its chunk count, and then rewritten to
\* failed when the analytics call raised, has lost the chunk count.
C26_Witness ==
    \E s \in Sessions :
       /\ Uploading(s) /\ h[s].pc = "failed" /\ h[s].stage = "analytics"
       /\ h[s].chunks > 0
       /\ h[s].doc \in DOMAIN documents
       /\ documents[h[s].doc].status = "failed"
       /\ documents[h[s].doc].chunks_created = None
       /\ documents[h[s].doc].error_message = Some("OperationalError")

\* ---- C27
\* The run is a generation request whose model invocation raised.
FailedByModel(run) == run.kind = "generate" /\ run.stage = "llm"

\* The steps session s takes in such a request: the one that takes the
\* selection, the one that fetches the context, the one in which the
\* invocation raises, and the except branch.
FailedRequestStep(s) ==
    /\ h'[s] # h[s]
    /\ \/ h'[s].kind = "generate" /\ h'[s].pc \in {"selected", "context"}
       \/ FailedByModel(h'[s])
       \/ FailedByModel(h[s])

\* C27: a generation request whose model invocation raises changes neither
\* the generated_content table nor the analytics_events table: none of its
\* steps writes them, it has stored nothing, and it ends in the except
\* branch without questions.
C27_FailedRequestStoresNothing ==
    /\ [][\A s \in Sessions :
             FailedRequestStep(s)
                => /\ generated_content' = generated_content
                   /\ analytics_events' = analytics_events]_vars
    /\ [](\A s \in Sessions :
             FailedByModel(h[s])
                => /\ h[s].pc \in {"except", "failed"}
                   /\ h[s].stored = 0
                   /\ ~h[s].returned
                   /\ h[s].questions = <<>>)

\* A request has ended after its model invocation raised; nothing is stored
\* and the only events are those of the uploads.
C27_Witness ==
    \E s \in Sessions :
       /\ FailedByModel(h[s]) /\ h[s].pc = "failed"
       /\ h[s].error = "HfHubHTTPError"
       /\ generated_content = <<>>
       /\ analytics_events # <<>>
       /\ \A i \in 1..Len(analytics_events) :
             analytics_events[i].event_type = "document_processed"

\* ---- C28
\* C28: a call of get_documents_context never ends in an exception; when the
\* index query fails it returns the empty text, whatever chunks the ids
\* before the failure had, which is also what it returns when no chunk is
\* found.
C28_ContextNeverRaises ==
    call.op = "get_documents_context"
        => /\ ~call.raised
           /\ call.query_failed
                => /\ call.context = <<>>
                   /\ call.context =
                         get_documents_context(<<>>, call.document_ids, FALSE)

\* The query failed in a lookup of two ids of which the first has chunks in
\* the store: the context is empty.
C28_Witness ==
    /\ call.op = "get_documents_context" /\ call.query_failed
    /\ ~call.raised
    /\ call.document_ids = <<1, 2>>
    /\ Cardinality(Met(faculty_documents, <<1>>)) = 12
    /\ call.context = <<>>

\* ---- C29
\* C29: the ids of a generation request are ids of documents that, in the
\* state the request is built from (the read of completed_docs), have a
\* record with status completed and were uploaded by the user of the
\* request; a document that is then in another status, or of another user,
\* is not among them. The call of get_documents_context is given exactly
\* these ids (another session may have deleted a document in between).
C29_SourcesCompletedOwn ==
    [][\A s \in Sessions :
          /\ (Idle(s) /\ h'[s].kind = "generate")
                => /\ h'[s].selected_docs # <<>>
                   /\ \A i \in 1..Len(h'[s].selected_docs) :
                         LET d == h'[s].selected_docs[i]
                         IN /\ d \in DOMAIN documents
                            /\ documents[d].status = "completed"
                            /\ documents[d].uploaded_by = h'[s].user
          /\ (Generating(s) /\ h[s].pc = "selected" /\ h'[s] # h[s])
                => /\ h'[s].selected_docs = h[s].selected_docs
                   /\ h'[s].user = h[s].user
                   /\ \E query_fails \in BOOLEAN :
                         h'[s].context =
                            get_documents_context(faculty_documents,
                                                  h[s].selected_docs,
                                                  query_fails)]_vars

\* u1 generates from its completed document while a completed document of
\* u2 is in the table and is not a source.
C29_Witness ==
    \E s \in Sessions :
       /\ Generating(s) /\ h[s].pc = "context" /\ h[s].user = "u1"
       /\ Len(h[s].selected_docs) = 1
       /\ \E d \in DOMAIN documents :
             /\ documents[d].uploaded_by = "u2"
             /\ documents[d].status = "completed"
             /\ d # h[s].selected_docs[1]

====
